---------------------------- MODULE Spec2Model ----------------------------
(***************************************************************************)
(* A model of the OSC99 library (xioTechnologies/OSC99): the OSC address   *)
(* matcher, the OSC message and bundle codecs, the packet dispatcher and   *)
(* the SLIP encoder/decoder.                                               *)
(*                                                                         *)
(* Characters and bytes are the integers 0..255 (a C char seen as its      *)
(* unsigned value).  A C string is the sequence of its characters without  *)
(* the terminating null; a buffer is the sequence of the bytes written to  *)
(* it so far (what lies behind is uninitialised memory).  Indices are the  *)
(* zero-based indices of the C code.                                       *)
(***************************************************************************)
EXTENDS Integers, Sequences, FiniteSets, TLC

VARIABLES
    \* ---- address matcher (OscAddress.c)
    pattern,        \* the OSC address pattern given to the matcher
    address,        \* the target OSC address
    tail,           \* the bytes that lie behind the address's terminating null
    matchOp,        \* the matcher operation that ran last ("none" before any)
    matchResult,    \* what it returned
    partCall,       \* the last call of a function on the parts of the pattern
    \* ---- SLIP encoder and decoder (OscSlip.c)
    slipPacket,     \* contents of the OSC packet given to the encoder
    slipEncoded,    \* what OscSlipEncodePacket returned and wrote
    slipDecoder,    \* the OscSlipDecoder structure
    slipFed,        \* number of bytes of the encoded packet given to the decoder
    slipErrors,     \* the error codes OscSlipDecoderProcessByte returned so far
    slipDelivered,  \* the packets passed to the decoder's processPacket so far
    slipCall,       \* the last call made on the decoder, and the bytes it got
                    \* since the previous SLIP_END, initialisation or clear
    \* ---- OSC messages (OscMessage.c)
    message,        \* the OscMessage structure
    msgCall,        \* the last call made on it: function, arguments, error code
    msgWire,        \* what the last OscMessageToCharArray returned and wrote
    msgBuilt,       \* the structure is as OscMessageInitialise and successful
                    \* add calls have made it
    msgAdds,        \* number of add calls made
    msgParses,      \* number of OscMessageInitialiseFromCharArray calls made
    msgReads,       \* number of accessor calls made
    \* ---- OSC bundles and packets (OscBundle.c, OscPacket.c)
    bundles,        \* the OscBundle structures of the application
    bundleHolds,    \* for each, the time tag, messages and bundles it was given
    bundleCall,     \* the last call made on a bundle: function, bundle, error code
    bundleWire,     \* what the last OscBundleToCharArray returned and wrote
    bundleAdds,     \* number of OscBundleAddContents calls made
    bundleParses,   \* number of OscBundleInitialiseFromCharArray calls made
    packet,         \* the OscPacket structure
    packetHolds,    \* the message or bundle the packet was made of
    dispatched      \* what OscPacketProcessMessages returned, and the calls of
                    \* processMessage it made

addrVars == <<pattern, address, tail, matchOp, matchResult, partCall>>

slipVars ==
    <<slipPacket, slipEncoded, slipDecoder, slipFed, slipErrors, slipDelivered, slipCall>>

msgVars == <<message, msgCall, msgWire, msgBuilt, msgAdds, msgParses, msgReads>>

bundleVars ==
    <<bundles, bundleHolds, bundleCall, bundleWire, bundleAdds, bundleParses,
      packet, packetHolds, dispatched>>

vars == <<addrVars, slipVars, msgVars, bundleVars>>

-----------------------------------------------------------------------------
(* Characters *)

CharNull == 0
CharBang == 33
CharHash == 35
CharStar == 42
CharComma == 44
CharHyphen == 45
CharSlash == 47
CharQuestion == 63
CharOpenBracket == 91
CharCloseBracket == 93
CharOpenBrace == 123
CharCloseBrace == 125
\* Two letters, 'a' and 'b', for the strings the model draws.
Letters == <<97, 98>>
CharA == Letters[1]
CharB == Letters[2]

-----------------------------------------------------------------------------
(* Helpers *)

Max(x, y) == IF x >= y THEN x ELSE y

Min(x, y) == IF x <= y THEN x ELSE y

\* All sequences over S of length at most n.
SeqsUpTo(S, n) == UNION {[1..k -> S] : k \in 0..n}

\* s[i] for the zero-based index i of a null terminated C string: the
\* terminating null at Len(s), and behind it.
CharAt(s, i) == IF i >= 0 /\ i < Len(s) THEN s[i + 1] ELSE CharNull

\* The memory holding a target address: its characters, the terminating null and
\* whatever lies behind it.
AddressMemory(a, t) == a \o <<CharNull>> \o t

\* What a read of memory that was never written gives.
Uninitialised == 0 - 1

\* buffer[i] = v for the zero-based index i.
Poke(buffer, i, v) ==
    IF i < Len(buffer) THEN [buffer EXCEPT ![i + 1] = v]
    ELSE buffer \o [k \in 1..(i - Len(buffer)) |-> Uninitialised] \o <<v>>

\* buffer[i] for the zero-based index i.
Peek(buffer, i) == IF i >= 0 /\ i < Len(buffer) THEN buffer[i + 1] ELSE Uninitialised

\* n times the byte b.
Repeat(b, n) == [k \in 1..n |-> b]

\* Number of occurrences of character c in s.
CountChar(s, c) == Cardinality({k \in 1..Len(s) : s[k] = c})

-----------------------------------------------------------------------------
(* OscError.h, OscCommon.h *)

OscErrorNone == "OscErrorNone"
OscErrorDestinationTooSmall == "OscErrorDestinationTooSmall"
OscErrorCallbackFunctionUndefined == "OscErrorCallbackFunctionUndefined"
OscErrorNotEnoughPartsInAddressPattern == "OscErrorNotEnoughPartsInAddressPattern"
OscErrorEncodedSlipPacketTooLong == "OscErrorEncodedSlipPacketTooLong"
OscErrorUnexpectedByteAfterSlipEsc == "OscErrorUnexpectedByteAfterSlipEsc"
OscErrorDecodedSlipPacketTooLong == "OscErrorDecodedSlipPacketTooLong"
OscErrorSizeIsNotMultipleOfFour == "OscErrorSizeIsNotMultipleOfFour"
OscErrorNoSlashAtStartOfMessage == "OscErrorNoSlashAtStartOfMessage"
OscErrorAddressPatternTooLong == "OscErrorAddressPatternTooLong"
OscErrorTooManyArguments == "OscErrorTooManyArguments"
OscErrorArgumentsSizeTooLarge == "OscErrorArgumentsSizeTooLarge"
OscErrorUndefinedAddressPattern == "OscErrorUndefinedAddressPattern"
OscErrorMessageSizeTooSmall == "OscErrorMessageSizeTooSmall"
OscErrorMessageSizeTooLarge == "OscErrorMessageSizeTooLarge"
OscErrorSourceEndsBeforeEndOfAddressPattern == "OscErrorSourceEndsBeforeEndOfAddressPattern"
OscErrorSourceEndsBeforeStartOfTypeTagString == "OscErrorSourceEndsBeforeStartOfTypeTagString"
OscErrorTypeTagStringToLong == "OscErrorTypeTagStringToLong"
OscErrorSourceEndsBeforeEndOfTypeTagString == "OscErrorSourceEndsBeforeEndOfTypeTagString"
OscErrorUnexpectedEndOfSource == "OscErrorUnexpectedEndOfSource"
OscErrorNoArgumentsAvailable == "OscErrorNoArgumentsAvailable"
OscErrorUnexpectedArgumentType == "OscErrorUnexpectedArgumentType"
OscErrorMessageTooShortForArgumentType == "OscErrorMessageTooShortForArgumentType"
OscErrorBundleFull == "OscErrorBundleFull"
OscErrorBundleSizeTooSmall == "OscErrorBundleSizeTooSmall"
OscErrorBundleSizeTooLarge == "OscErrorBundleSizeTooLarge"
OscErrorNoHashAtStartOfBundle == "OscErrorNoHashAtStartOfBundle"
OscErrorBundleElementNotAvailable == "OscErrorBundleElementNotAvailable"
OscErrorNegativeBundleElementSize == "OscErrorNegativeBundleElementSize"
OscErrorInvalidElementSize == "OscErrorInvalidElementSize"
OscErrorInvalidContents == "OscErrorInvalidContents"
OscErrorContentsEmpty == "OscErrorContentsEmpty"
OscErrorPacketSizeTooLarge == "OscErrorPacketSizeTooLarge"

\* A null function pointer.
NULL == "NULL"

MAX_TRANSPORT_SIZE == 1472

-----------------------------------------------------------------------------
(* OscAddress.c: the matcher.                                              *)
(* p is the pattern, mem the memory holding the address, pi and ai the     *)
(* zero-based positions of the two cursors.  Every matcher returns         *)
(*   ok   the C function's return value                                    *)
(*   hang TRUE when the C function never returns                           *)
(*   p, a the cursors as the C function leaves them                        *)
(*   top  the highest address position read so far.                        *)
(***************************************************************************)

MatchReturn(ok, pi, ai, top) == [ok |-> ok, hang |-> FALSE, p |-> pi, a |-> ai, top |-> top]

MatchHang(pi, ai, top) == [ok |-> FALSE, hang |-> TRUE, p |-> pi, a |-> ai, top |-> top]

\* strlen(*oscAddress): the number of characters before the next null.
RECURSIVE StrLen(_, _)
StrLen(mem, ai) == IF CharAt(mem, ai) = CharNull THEN 0 ELSE 1 + StrLen(mem, ai + 1)

\* strncmp(pattern + pi, address + ai, n) == 0
RECURSIVE StrNCmpEqual(_, _, _, _, _)
StrNCmpEqual(p, pi, mem, ai, n) ==
    IF n = 0 THEN TRUE
    ELSE IF CharAt(p, pi) # CharAt(mem, ai) THEN FALSE
    ELSE IF CharAt(p, pi) = CharNull THEN TRUE
    ELSE StrNCmpEqual(p, pi + 1, mem, ai + 1, n - 1)

\* The highest address position strncmp reads.
RECURSIVE StrNCmpTop(_, _, _, _, _)
StrNCmpTop(p, pi, mem, ai, n) ==
    IF n = 0 THEN ai - 1
    ELSE IF CharAt(p, pi) # CharAt(mem, ai) \/ CharAt(p, pi) = CharNull THEN ai
    ELSE StrNCmpTop(p, pi + 1, mem, ai + 1, n - 1)

\* MatchBrackets: the loop over the characters of the bracketed list.
RECURSIVE MatchBracketsLoop(_, _, _, _, _, _, _)
MatchBracketsLoop(p, mem, pi, ai, negatedList, match, top) ==
    LET c == CharAt(p, pi)
        t == CharAt(mem, ai)
        hit == IF negatedList THEN FALSE ELSE TRUE
    IN  IF c = CharCloseBracket
        THEN MatchReturn(match, pi + 1, ai + 1, top)
        ELSE IF c = CharSlash \/ c = CharNull
        THEN MatchReturn(FALSE, pi, ai, top)
        ELSE IF CharAt(p, pi + 1) = CharHyphen /\ CharAt(p, pi + 2) # CharCloseBracket
        THEN IF CharAt(p, pi + 2) = CharSlash \/ CharAt(p, pi + 2) = CharNull
             THEN MatchReturn(FALSE, pi, ai, top)
             ELSE LET lowerChar == Min(c, CharAt(p, pi + 2))
                      upperChar == Max(c, CharAt(p, pi + 2))
                  IN  MatchBracketsLoop(p, mem, pi + 3, ai, negatedList,
                          IF t >= lowerChar /\ t <= upperChar THEN hit ELSE match,
                          Max(top, ai))
        ELSE MatchBracketsLoop(p, mem, pi + 1, ai, negatedList,
                 IF c = t THEN hit ELSE match, Max(top, ai))

MatchBrackets(p, mem, pi, ai, top) ==
    LET negatedList == CharAt(p, pi + 1) = CharBang
        start == IF negatedList THEN pi + 2 ELSE pi + 1
    IN  MatchBracketsLoop(p, mem, start, ai, negatedList, negatedList, top)

\* MatchCurlyBraces: the position of the next ',' or '}' at or after e, or -1
\* when a '/' or the end of the pattern comes first.
RECURSIVE EndOfSubstring(_, _)
EndOfSubstring(p, e) ==
    IF CharAt(p, e) = CharComma \/ CharAt(p, e) = CharCloseBrace THEN e
    ELSE IF CharAt(p, e) = CharSlash \/ CharAt(p, e) = CharNull THEN -1
    ELSE EndOfSubstring(p, e + 1)

\* MatchCurlyBraces: the loop over the substrings of the list.  pi is at the
\* '{' or ',' before the substring, e is endOfSubstring.
RECURSIVE MatchCurlyBracesLoop(_, _, _, _, _, _, _, _, _)
MatchCurlyBracesLoop(p, mem, pi, ai, isPartial, e, matchedSubStringLength, match, top) ==
    IF CharAt(p, pi) = CharCloseBrace
    THEN MatchReturn(match, pi + 1, ai + matchedSubStringLength, top)
    ELSE IF CharAt(p, pi) = CharSlash \/ CharAt(p, pi) = CharNull
    THEN MatchReturn(FALSE, pi, ai, top)
    ELSE LET end == EndOfSubstring(p, e)
         IN  IF end = -1
             THEN MatchReturn(FALSE, pi, ai, top)
             ELSE LET full == end - (pi + 1)
                      subStringLength ==
                          IF isPartial THEN Min(full, StrLen(mem, ai)) ELSE full
                      same == StrNCmpEqual(p, pi + 1, mem, ai, subStringLength)
                      read == Max(IF isPartial THEN ai + StrLen(mem, ai) ELSE top,
                                  StrNCmpTop(p, pi + 1, mem, ai, subStringLength))
                  IN  MatchCurlyBracesLoop(p, mem, end, ai, isPartial, end + 1,
                          IF same THEN Max(matchedSubStringLength, subStringLength)
                                  ELSE matchedSubStringLength,
                          match \/ same, Max(top, read))

MatchCurlyBraces(p, mem, pi, ai, isPartial, top) ==
    MatchCurlyBracesLoop(p, mem, pi, ai, isPartial, pi, 0, FALSE, top)

\* MatchCharacter: the cursors restored when r, what MatchBrackets or
\* MatchCurlyBraces returned, is no match.
MatchCharacterRestore(r, pi, ai) ==
    IF r.ok THEN r ELSE MatchReturn(FALSE, pi, ai, r.top)

MatchCharacter(p, mem, pi, ai, isPartial, top) ==
    LET c == CharAt(p, pi)
    IN  IF c = CharOpenBracket
        THEN MatchCharacterRestore(MatchBrackets(p, mem, pi, ai, top), pi, ai)
        ELSE IF c = CharCloseBracket
        THEN MatchReturn(FALSE, pi, ai, top)
        ELSE IF c = CharOpenBrace
        THEN MatchCharacterRestore(MatchCurlyBraces(p, mem, pi, ai, isPartial, top), pi, ai)
        ELSE IF c = CharCloseBrace
        THEN MatchReturn(FALSE, pi, ai, top)
        ELSE IF c = CharAt(mem, ai) \/ c = CharQuestion
        THEN MatchReturn(TRUE, pi + 1, ai + 1, Max(top, ai))
        ELSE MatchReturn(FALSE, pi, ai, Max(top, ai))

\* MatchStar: the pattern cursor advanced past the star(s).
RECURSIVE SkipStars(_, _)
SkipStars(p, pi) == IF CharAt(p, pi) = CharStar THEN SkipStars(p, pi + 1) ELSE pi

\* MatchStar: the address cursor advanced to the next '/' or null.
RECURSIVE EndOfPart(_, _)
EndOfPart(mem, ai) ==
    IF CharAt(mem, ai) = CharSlash \/ CharAt(mem, ai) = CharNull THEN ai
    ELSE EndOfPart(mem, ai + 1)

RECURSIVE StarSeek(_, _, _, _, _, _)

\* MatchStar: one pass of the inner while loop, c being what its call of
\* MatchCharacter returned.
StarSeekBody(p, mem, pi, ai, isPartial, c) ==
    IF c.ok
    THEN [found |-> TRUE, ok |-> TRUE, p |-> c.p, a |-> c.a, top |-> c.top]
    ELSE IF CharAt(mem, ai + 1) = CharSlash \/ CharAt(mem, ai + 1) = CharNull
    THEN [found |-> FALSE, ok |-> isPartial /\ CharAt(mem, ai + 1) = CharNull,
          p |-> pi, a |-> ai + 1, top |-> Max(c.top, ai + 1)]
    ELSE StarSeek(p, mem, pi, ai + 1, isPartial, Max(c.top, ai + 1))

\* MatchStar: the inner while loop, which advances the address until
\* MatchCharacter matches.  found is FALSE when the part or the address ended
\* first, and then ok is what MatchStar returns.
StarSeek(p, mem, pi, ai, isPartial, top) ==
    StarSeekBody(p, mem, pi, ai, isPartial, MatchCharacter(p, mem, pi, ai, isPartial, top))

RECURSIVE MatchExpression(_, _, _, _, _, _)
RECURSIVE MatchStarLoop(_, _, _, _, _, _)

\* MatchStar: the end of one pass of the do-while loop, s being what the
\* inner loop found and e what MatchExpression returned from there.  A pass
\* that ends with the cursors where it found them repeats for ever, and so
\* does, for all that is known of the memory, a pass that has taken the
\* address cursor out of the memory given.
MatchStarRetry(p, mem, pi, ai, isPartial, s, e) ==
    IF e.hang \/ e.ok THEN e
    ELSE IF s.a = ai \/ s.a > Len(mem) THEN MatchHang(pi, ai, Max(e.top, s.a))
    ELSE MatchStarLoop(p, mem, pi, s.a, isPartial, e.top)

\* MatchStar: one pass of the do-while loop, s being what the inner loop
\* found.
MatchStarBody(p, mem, pi, ai, isPartial, s) ==
    IF ~s.found
    THEN MatchReturn(s.ok, s.p, s.a, s.top)
    ELSE MatchStarRetry(p, mem, pi, ai, isPartial, s,
             MatchExpression(p, mem, s.p, s.a, isPartial, s.top))

\* MatchStar: the do-while loop.  pi is oscAddressPatternCache.
MatchStarLoop(p, mem, pi, ai, isPartial, top) ==
    MatchStarBody(p, mem, pi, ai, isPartial, StarSeek(p, mem, pi, ai, isPartial, top))

MatchStar(p, mem, pi, ai, isPartial, top) ==
    LET next == SkipStars(p, pi)
    IN  IF CharAt(p, next) = CharSlash \/ CharAt(p, next) = CharNull
        THEN LET end == EndOfPart(mem, ai)
             IN  MatchReturn(TRUE, next, end, Max(top, end))
        ELSE MatchStarLoop(p, mem, next, ai, isPartial, top)

\* MatchExpression: the end of one pass of the loop, r being what MatchStar
\* or MatchCharacter returned.
MatchExpressionBody(p, mem, isPartial, r) ==
    IF r.hang THEN r
    ELSE IF ~r.ok THEN MatchReturn(FALSE, r.p, r.a, r.top)
    ELSE MatchExpression(p, mem, r.p, r.a, isPartial, r.top)

MatchExpression(p, mem, pi, ai, isPartial, top) ==
    IF CharAt(p, pi) = CharNull
    THEN MatchReturn(CharAt(mem, ai) = CharNull, pi, ai, Max(top, ai))
    ELSE IF CharAt(mem, ai) = CharNull /\ isPartial
    THEN MatchReturn(TRUE, pi, ai, Max(top, ai))
    ELSE IF CharAt(p, pi) = CharStar
    THEN MatchExpressionBody(p, mem, isPartial,
             MatchStar(p, mem, pi, ai, isPartial, Max(top, ai)))
    ELSE MatchExpressionBody(p, mem, isPartial,
             MatchCharacter(p, mem, pi, ai, isPartial, Max(top, ai)))

\* MatchLiteral: both cursors are at position i.
RECURSIVE MatchLiteralLoop(_, _, _, _)
MatchLiteralLoop(p, mem, i, isPartial) ==
    LET c == CharAt(p, i)
    IN  IF c = CharNull
        THEN MatchReturn(CharAt(mem, i) = CharNull, i, i, i)
        ELSE IF CharAt(mem, i) = CharNull
        THEN IF isPartial
             THEN MatchReturn(TRUE, i, i, i)
             ELSE MatchExpression(p, mem, i, i, isPartial, i)
        ELSE IF c \in {CharQuestion, CharStar, CharOpenBracket, CharOpenBrace}
        THEN MatchExpression(p, mem, i, i, isPartial, i)
        ELSE IF c # CharAt(mem, i)
        THEN MatchReturn(FALSE, i, i, i)
        ELSE MatchLiteralLoop(p, mem, i + 1, isPartial)

\* A matcher that always matches partially.
MatchLiteralPrefix(p, mem, isPartial) == MatchLiteralLoop(p, mem, 0, TRUE)

\* A matcher that never takes the end of the address for a partial match.
MatchLiteralNeverPartial(p, mem, isPartial) == MatchLiteralLoop(p, mem, 0, FALSE)

MatchLiteral(p, mem, isPartial) == MatchLiteralLoop(p, mem, 0, isPartial)

OscAddressMatch(p, mem) == MatchLiteral(p, mem, FALSE)

\* A partial matcher that matches only the addresses that stop short of the
\* pattern.
OscAddressMatchTruncated(p, mem) ==
    IF MatchLiteralLoop(p, mem, 0, FALSE).ok
    THEN MatchReturn(FALSE, 0, 0, 0)
    ELSE MatchLiteralLoop(p, mem, 0, TRUE)

OscAddressMatchPartial(p, mem) == MatchLiteral(p, mem, TRUE)

RECURSIVE OscAddressIsLiteral(_)
OscAddressIsLiteral(p) ==
    IF p = <<>> THEN TRUE
    ELSE IF Head(p) \in {CharQuestion, CharStar, CharOpenBracket, CharOpenBrace} THEN FALSE
    ELSE OscAddressIsLiteral(Tail(p))

OscAddressGetNumberOfParts(p) == CountChar(p, CharSlash)

\* What OscAddressGetPartAtIndex returns: the error code and the bytes written
\* to destination[0], destination[1], ...
PartReturned(err, destination) == [err |-> err, destination |-> destination]

\* OscAddressGetPartAtIndex: the loop that advances the cursor to the start of
\* the part, -1 when the string ends first.  The inner loop leaves the cursor
\* on the '/' it finds, so that the next pass finds the same '/'.  The indexes
\* given are less than the largest unsigned int, so that index + 1 is not 0.
RECURSIVE PartSeek(_, _, _, _)
PartSeek(p, pi, partCount, index) ==
    IF ~(partCount < (index + 1)) THEN pi
    ELSE IF CharAt(p, EndOfPart(p, pi)) = CharNull THEN -1
    ELSE PartSeek(p, EndOfPart(p, pi), partCount + 1, index)

\* OscAddressGetPartAtIndex: the loop that copies the part to the destination.
RECURSIVE PartCopy(_, _, _, _, _)
PartCopy(p, pi, destination, destinationIndex, destinationSize) ==
    IF CharAt(p, pi) = CharNull
    THEN PartReturned(OscErrorNone, Poke(destination, destinationIndex, CharNull))
    ELSE IF destinationIndex + 1 >= destinationSize
    THEN PartReturned(OscErrorDestinationTooSmall,
             Poke(destination, destinationIndex, CharAt(p, pi)))
    ELSE IF CharAt(p, pi + 1) = CharSlash
    THEN PartReturned(OscErrorNone,
             Poke(Poke(destination, destinationIndex, CharAt(p, pi)),
                  destinationIndex + 1, CharNull))
    ELSE PartCopy(p, pi + 1, Poke(destination, destinationIndex, CharAt(p, pi)),
             destinationIndex + 1, destinationSize)

\* OscAddressGetPartAtIndex from the copy on, pi being where the first loop
\* left the cursor.
PartFrom(p, pi, destinationSize) ==
    IF pi = -1 THEN PartReturned(OscErrorNotEnoughPartsInAddressPattern, <<>>)
    ELSE PartCopy(p, pi, <<>>, 0, destinationSize)

OscAddressGetPartAtIndex(p, index, destinationSize) ==
    PartFrom(p, PartSeek(p, 0, 0, index), destinationSize)

-----------------------------------------------------------------------------
(* OscSlip.c *)

SLIP_END == 192
SLIP_ESC == 219
SLIP_ESC_END == 220
SLIP_ESC_ESC == 221

MAX_OSC_PACKET_SIZE == MAX_TRANSPORT_SIZE

OSC_SLIP_DECODER_BUFFER_SIZE == MAX_TRANSPORT_SIZE

\* An encoder that escapes nothing.
SlipEscapeNothing(byte) == <<byte>>

\* OscSlipEncodePacket: what the switch writes for one byte of the packet.
SlipEscape(byte) ==
    IF byte = SLIP_END THEN <<SLIP_ESC, SLIP_ESC_END>>
    ELSE IF byte = SLIP_ESC THEN <<SLIP_ESC, SLIP_ESC_ESC>>
    ELSE <<byte>>

\* OscSlipEncodePacket: one pass of the loop over the packet's contents, its
\* condition included.  st.destination is the bytes written so far, at the
\* indices 0 .. encodedPacketSize - 1; st.err is the error the pass returns.
SlipEncodeBody(contents, destinationSize, st) ==
    IF st.err # OscErrorNone \/ st.packetIndex >= Len(contents)
    THEN st
    ELSE IF (Len(st.destination) + 1) > destinationSize
    THEN [st EXCEPT !.err = OscErrorDestinationTooSmall]
    ELSE [st EXCEPT !.packetIndex = @ + 1,
                    !.destination = @ \o SlipEscape(contents[st.packetIndex + 1])]

\* OscSlipEncodePacket: n passes of the loop (evaluated by halves).
RECURSIVE SlipEncodeLoop(_, _, _, _)
SlipEncodeLoop(contents, destinationSize, st, n) ==
    IF n = 0 THEN st
    ELSE IF n = 1 THEN SlipEncodeBody(contents, destinationSize, st)
    ELSE LET half == SlipEncodeLoop(contents, destinationSize, st, n \div 2)
         IN  IF half.err # OscErrorNone THEN half
             ELSE SlipEncodeLoop(contents, destinationSize, half, n - (n \div 2))

\* OscError OscSlipEncodePacket(oscPacket, slipPacketSize, destination, destinationSize):
\* the error code, *slipPacketSize and the bytes written to destination[0],
\* destination[1], ... (Len(destination) > destinationSize is a write behind
\* the end of the destination).
OscSlipEncodePacket(contents, destinationSize) ==
    LET st == SlipEncodeLoop(contents, destinationSize,
                  [packetIndex |-> 0, destination |-> <<>>, err |-> OscErrorNone],
                  Len(contents))
    IN  IF st.err # OscErrorNone
        THEN [err |-> st.err,
              slipPacketSize |-> 0,
              destination |-> st.destination,
              destinationSize |-> destinationSize]
        ELSE [err |-> OscErrorNone,
              slipPacketSize |-> Len(st.destination) + 1,
              destination |-> Append(st.destination, SLIP_END),
              destinationSize |-> destinationSize]

\* void OscSlipDecoderInitialise(oscSlipDecoder)
OscSlipDecoderInitialise ==
    [buffer |-> <<>>, bufferIndex |-> 0, processPacket |-> NULL]

\* OscSlipDecoderProcessByte: what the switch on the byte that follows
\* SLIP_ESC adds to the packet's contents, nothing for an unexpected byte.
SlipUnescape(byte) ==
    IF byte = SLIP_ESC_END THEN <<SLIP_END>>
    ELSE IF byte = SLIP_ESC_ESC THEN <<SLIP_ESC>>
    ELSE <<>>

\* OscSlipDecoderProcessByte: one pass of the loop that decodes the buffer
\* into oscPacket.contents, its condition included.  A read behind the bytes
\* the decoder has written so far ends the loop as uninitialised.
SlipDecodeBody(buffer, st) ==
    IF st.err # OscErrorNone \/ st.uninitialised \/ Peek(buffer, st.index) = SLIP_END
    THEN st
    ELSE IF st.index >= Len(buffer)
    THEN [st EXCEPT !.uninitialised = TRUE]
    ELSE IF Peek(buffer, st.index) = SLIP_ESC
    THEN IF st.index + 1 >= Len(buffer)
         THEN [st EXCEPT !.uninitialised = TRUE]
         ELSE IF SlipUnescape(Peek(buffer, st.index + 1)) = <<>>
         THEN [st EXCEPT !.err = OscErrorUnexpectedByteAfterSlipEsc]
         ELSE IF Len(st.contents) + 1 > MAX_OSC_PACKET_SIZE
         THEN [st EXCEPT !.err = OscErrorDecodedSlipPacketTooLong]
         ELSE [st EXCEPT !.index = @ + 2,
                         !.contents = @ \o SlipUnescape(Peek(buffer, st.index + 1))]
    ELSE IF Len(st.contents) + 1 > MAX_OSC_PACKET_SIZE
    THEN [st EXCEPT !.err = OscErrorDecodedSlipPacketTooLong]
    ELSE [st EXCEPT !.index = @ + 1,
                    !.contents = Append(@, Peek(buffer, st.index))]

\* OscSlipDecoderProcessByte: n passes of the decoding loop (evaluated by
\* halves).
RECURSIVE SlipDecodeLoop(_, _, _)
SlipDecodeLoop(buffer, st, n) ==
    IF n = 0 THEN st
    ELSE IF n = 1 THEN SlipDecodeBody(buffer, st)
    ELSE LET half == SlipDecodeLoop(buffer, st, n \div 2)
         IN  IF half.err # OscErrorNone \/ half.uninitialised THEN half
             ELSE SlipDecodeLoop(buffer, half, n - (n \div 2))

\* OscSlipDecoderProcessByte without the test of the incremented index against
\* the size of the buffer.
OscSlipDecoderProcessByteUnbounded(decoder, byte) ==
    LET buffer == Poke(decoder.buffer, decoder.bufferIndex, byte)
        decoded == SlipDecodeLoop(buffer,
                       [index |-> 0, contents |-> <<>>, err |-> OscErrorNone,
                        uninitialised |-> FALSE],
                       Len(buffer))
    IN  IF byte # SLIP_END
        THEN [decoder |-> [decoder EXCEPT !.buffer = buffer, !.bufferIndex = @ + 1],
              err |-> OscErrorNone,
              called |-> FALSE, contents |-> <<>>]
        ELSE [decoder |-> [decoder EXCEPT !.buffer = buffer, !.bufferIndex = 0],
              err |-> IF decoded.err # OscErrorNone THEN decoded.err
                      ELSE IF decoder.processPacket = NULL
                      THEN OscErrorCallbackFunctionUndefined
                      ELSE OscErrorNone,
              called |-> decoded.err = OscErrorNone /\ decoder.processPacket # NULL,
              contents |-> IF decoded.err = OscErrorNone /\ decoder.processPacket # NULL
                           THEN decoded.contents ELSE <<>>]

\* OscError OscSlipDecoderProcessByte(oscSlipDecoder, byte): the decoder as the
\* call leaves it, the error code, and whether processPacket was called and
\* with which packet contents.
OscSlipDecoderProcessByte(decoder, byte) ==
    LET buffer == Poke(decoder.buffer, decoder.bufferIndex, byte)
        index == decoder.bufferIndex + 1
        decoded == SlipDecodeLoop(buffer,
                       [index |-> 0, contents |-> <<>>, err |-> OscErrorNone,
                        uninitialised |-> FALSE],
                       Len(buffer))
    IN  IF index >= OSC_SLIP_DECODER_BUFFER_SIZE
        THEN [decoder |-> [decoder EXCEPT !.buffer = buffer, !.bufferIndex = 0],
              err |-> OscErrorEncodedSlipPacketTooLong,
              called |-> FALSE, contents |-> <<>>]
        ELSE IF byte # SLIP_END
        THEN [decoder |-> [decoder EXCEPT !.buffer = buffer, !.bufferIndex = index],
              err |-> OscErrorNone,
              called |-> FALSE, contents |-> <<>>]
        ELSE IF decoded.err # OscErrorNone
        THEN [decoder |-> [decoder EXCEPT !.buffer = buffer, !.bufferIndex = 0],
              err |-> decoded.err,
              called |-> FALSE, contents |-> <<>>]
        ELSE IF decoder.processPacket = NULL
        THEN [decoder |-> [decoder EXCEPT !.buffer = buffer, !.bufferIndex = 0],
              err |-> OscErrorCallbackFunctionUndefined,
              called |-> FALSE, contents |-> <<>>]
        ELSE [decoder |-> [decoder EXCEPT !.buffer = buffer, !.bufferIndex = 0],
              err |-> OscErrorNone,
              called |-> TRUE, contents |-> decoded.contents]

\* void OscSlipDecoderClearBuffer(oscSlipDecoder)
OscSlipDecoderClearBuffer(decoder) == [decoder EXCEPT !.bufferIndex = 0]

-----------------------------------------------------------------------------
(* OscMessage.h, OscMessage.c: construction *)

MIN_OSC_MESSAGE_SIZE == 8

MAX_OSC_MESSAGE_SIZE == MAX_TRANSPORT_SIZE

MAX_OSC_ADDRESS_PATTERN_LENGTH == 64

MAX_NUMBER_OF_ARGUMENTS == 16

MAX_OSC_TYPE_TAG_STRING_LENGTH == 1 + MAX_NUMBER_OF_ARGUMENTS

MAX_ARGUMENTS_SIZE ==
    MAX_OSC_MESSAGE_SIZE - (MAX_OSC_ADDRESS_PATTERN_LENGTH + 4)
        - (MAX_OSC_TYPE_TAG_STRING_LENGTH + 4)

OscTypeTagInt32 == 105
OscTypeTagFloat32 == 102
OscTypeTagString == 115
OscTypeTagBlob == 98
OscTypeTagInt64 == 104
OscTypeTagTimeTag == 116
OscTypeTagDouble == 100
OscTypeTagAlternateString == 83
OscTypeTagCharacter == 99
OscTypeTagRgbaColour == 114
OscTypeTagMidiMessage == 109
OscTypeTagTrue == 84
OscTypeTagFalse == 70
OscTypeTagNil == 78
OscTypeTagInfinitum == 73
OscTypeTagBeginArray == 91
OscTypeTagEndArray == 93

\* sizeof (OscArgument32), sizeof (OscArgument64)
SizeOfOscArgument32 == 4
SizeOfOscArgument64 == 8

\* An OscMessage structure no function has written to.  The three arrays hold
\* the bytes written so far, which may be more than the lengths beside them
\* count.
NewOscMessage ==
    [oscAddressPattern |-> <<>>, oscTypeTagString |-> <<>>, arguments |-> <<>>,
     oscAddressPatternLength |-> 0, oscTypeTagStringLength |-> 0, argumentsSize |-> 0,
     oscTypeTagStringIndex |-> 0, argumentsIndex |-> 0]

\* What a function returns: its error code and the structure as it leaves it.
Returned(err, oscMessage) == [err |-> err, msg |-> oscMessage]

\* buffer[i], buffer[i + 1], ... = bytes
PokeAll(buffer, i, bytes) ==
    [k \in 1..Max(Len(buffer), i + Len(bytes)) |->
        IF k > i /\ k <= i + Len(bytes) THEN bytes[k - i]
        ELSE IF k <= Len(buffer) THEN buffer[k]
        ELSE Uninitialised]

\* buffer[i], ..., buffer[i + n - 1]
PeekAll(buffer, i, n) == [k \in 1..n |-> Peek(buffer, i + k - 1)]

\* OscMessageAppendAddressPattern: the loop over the appended characters.
RECURSIVE AppendAddressPatternLoop(_, _)
AppendAddressPatternLoop(oscMessage, appendedParts) ==
    IF appendedParts = <<>>
    THEN Returned(OscErrorNone,
             [oscMessage EXCEPT !.oscAddressPattern =
                 Poke(@, oscMessage.oscAddressPatternLength, CharNull)])
    ELSE IF oscMessage.oscAddressPatternLength >= MAX_OSC_ADDRESS_PATTERN_LENGTH
    THEN Returned(OscErrorAddressPatternTooLong, oscMessage)
    ELSE AppendAddressPatternLoop(
             [oscMessage EXCEPT
                 !.oscAddressPattern =
                     Poke(@, oscMessage.oscAddressPatternLength, Head(appendedParts)),
                 !.oscAddressPatternLength = @ + 1],
             Tail(appendedParts))

OscMessageAppendAddressPattern(oscMessage, appendedParts) ==
    IF CharAt(appendedParts, 0) # CharSlash
    THEN Returned(OscErrorNoSlashAtStartOfMessage, oscMessage)
    ELSE AppendAddressPatternLoop(oscMessage, appendedParts)

OscMessageSetAddressPattern(oscMessage, oscAddressPattern) ==
    OscMessageAppendAddressPattern(
        [oscMessage EXCEPT !.oscAddressPatternLength = 0], oscAddressPattern)

\* OscMessageInitialise: the structure before the address pattern is set.
InitialisedMessage(oscMessage) ==
    [oscMessage EXCEPT
        !.oscAddressPattern = Poke(@, 0, CharNull),
        !.oscTypeTagString = Poke(Poke(@, 0, CharComma), 1, CharNull),
        !.oscAddressPatternLength = 0,
        !.oscTypeTagStringLength = 1,
        !.argumentsSize = 0,
        !.oscTypeTagStringIndex = 1,
        !.argumentsIndex = 0]

OscMessageInitialise(oscMessage, oscAddressPattern) ==
    IF CharAt(oscAddressPattern, 0) # CharNull
    THEN OscMessageSetAddressPattern(InitialisedMessage(oscMessage), oscAddressPattern)
    ELSE Returned(OscErrorNone, InitialisedMessage(oscMessage))

\* oscTypeTagString[oscTypeTagStringLength++] = tag, and the terminating null.
AppendTypeTag(oscMessage, tag) ==
    [oscMessage EXCEPT
        !.oscTypeTagString =
            Poke(Poke(@, oscMessage.oscTypeTagStringLength, tag),
                 oscMessage.oscTypeTagStringLength + 1, CharNull),
        !.oscTypeTagStringLength = @ + 1]

\* An add function that tests neither the number of arguments nor their size.
AddArgumentUnchecked(oscMessage, tag, bytes) ==
    Returned(OscErrorNone,
        [AppendTypeTag(oscMessage, tag) EXCEPT
            !.arguments = PokeAll(@, oscMessage.argumentsSize, bytes),
            !.argumentsSize = @ + Len(bytes)])

\* The add functions for an argument of a fixed size, bytes being the
\* argument from its most significant byte (byte3 or byte7) to byte0.
AddArgument(oscMessage, tag, bytes) ==
    IF oscMessage.oscTypeTagStringLength > MAX_NUMBER_OF_ARGUMENTS
    THEN Returned(OscErrorTooManyArguments, oscMessage)
    ELSE IF (oscMessage.argumentsSize + Len(bytes)) > MAX_ARGUMENTS_SIZE
    THEN Returned(OscErrorArgumentsSizeTooLarge, oscMessage)
    ELSE Returned(OscErrorNone,
             [AppendTypeTag(oscMessage, tag) EXCEPT
                 !.arguments = PokeAll(@, oscMessage.argumentsSize, bytes),
                 !.argumentsSize = @ + Len(bytes)])

OscMessageAddInt32(oscMessage, int32) == AddArgument(oscMessage, OscTypeTagInt32, int32)

OscMessageAddFloat32(oscMessage, float32) ==
    AddArgument(oscMessage, OscTypeTagFloat32, float32)

OscMessageAddInt64(oscMessage, int64) == AddArgument(oscMessage, OscTypeTagInt64, int64)

OscMessageAddTimeTag(oscMessage, oscTimeTag) ==
    AddArgument(oscMessage, OscTypeTagTimeTag, oscTimeTag)

OscMessageAddDouble(oscMessage, double64) ==
    AddArgument(oscMessage, OscTypeTagDouble, double64)

OscMessageAddCharacter(oscMessage, asciiChar) ==
    AddArgument(oscMessage, OscTypeTagCharacter, <<0, 0, 0, asciiChar>>)

OscMessageAddRgbaColour(oscMessage, rgbaColour) ==
    AddArgument(oscMessage, OscTypeTagRgbaColour, rgbaColour)

OscMessageAddMidiMessage(oscMessage, midiMessage) ==
    AddArgument(oscMessage, OscTypeTagMidiMessage, midiMessage)

\* The add functions for an argument that is its type tag alone.
AddTypeTag(oscMessage, tag) ==
    IF oscMessage.oscTypeTagStringLength > MAX_NUMBER_OF_ARGUMENTS
    THEN Returned(OscErrorTooManyArguments, oscMessage)
    ELSE Returned(OscErrorNone, AppendTypeTag(oscMessage, tag))

OscMessageAddBool(oscMessage, boolean) ==
    AddTypeTag(oscMessage, IF boolean THEN OscTypeTagTrue ELSE OscTypeTagFalse)

OscMessageAddNil(oscMessage) == AddTypeTag(oscMessage, OscTypeTagNil)

OscMessageAddInfinitum(oscMessage) == AddTypeTag(oscMessage, OscTypeTagInfinitum)

OscMessageAddBeginArray(oscMessage) == AddTypeTag(oscMessage, OscTypeTagBeginArray)

OscMessageAddEndArray(oscMessage) == AddTypeTag(oscMessage, OscTypeTagEndArray)

\* static int TerminateOscString(oscString, oscStringSize, maxOscStringSize):
\* failed is a return value other than 0.
RECURSIVE TerminateOscString(_, _, _)
TerminateOscString(oscString, oscStringSize, maxOscStringSize) ==
    IF oscStringSize >= maxOscStringSize
    THEN [failed |-> TRUE, oscString |-> oscString, oscStringSize |-> oscStringSize]
    ELSE IF (oscStringSize + 1) % 4 # 0
    THEN TerminateOscString(Poke(oscString, oscStringSize, CharNull),
             oscStringSize + 1, maxOscStringSize)
    ELSE [failed |-> FALSE, oscString |-> Poke(oscString, oscStringSize, CharNull),
          oscStringSize |-> oscStringSize + 1]

\* OscMessageAddString: the loop that copies the string to the arguments.
RECURSIVE AddStringLoop(_, _, _)
AddStringLoop(arguments, argumentsSize, string) ==
    IF string = <<>>
    THEN [failed |-> FALSE, oscString |-> arguments, oscStringSize |-> argumentsSize]
    ELSE IF argumentsSize >= MAX_ARGUMENTS_SIZE
    THEN [failed |-> TRUE, oscString |-> arguments, oscStringSize |-> argumentsSize]
    ELSE AddStringLoop(Poke(arguments, argumentsSize, Head(string)),
             argumentsSize + 1, Tail(string))

\* OscMessageAddString, OscMessageAddBlob: the end of the function, t being what
\* TerminateOscString or the padding loop returned.
AddPaddedEnd(oscMessage, t, tag) ==
    IF t.failed
    THEN Returned(OscErrorArgumentsSizeTooLarge,
             [oscMessage EXCEPT !.arguments = t.oscString])
    ELSE Returned(OscErrorNone,
             AppendTypeTag([oscMessage EXCEPT !.arguments = t.oscString,
                                              !.argumentsSize = t.oscStringSize], tag))

\* OscMessageAddString: the function from the copy on, c being what the
\* copying loop returned.
AddStringTerminate(oscMessage, c, tag) ==
    IF c.failed
    THEN Returned(OscErrorArgumentsSizeTooLarge,
             [oscMessage EXCEPT !.arguments = c.oscString])
    ELSE AddPaddedEnd(oscMessage,
             TerminateOscString(c.oscString, c.oscStringSize, MAX_ARGUMENTS_SIZE), tag)

\* OscMessageAddString, and OscMessageAddAlternateString which replaces the
\* type tag OscMessageAddString has written.
AddStringAs(oscMessage, string, tag) ==
    IF oscMessage.oscTypeTagStringLength > MAX_NUMBER_OF_ARGUMENTS
    THEN Returned(OscErrorTooManyArguments, oscMessage)
    ELSE AddStringTerminate(oscMessage,
             AddStringLoop(oscMessage.arguments, oscMessage.argumentsSize, string), tag)

OscMessageAddString(oscMessage, string) ==
    AddStringAs(oscMessage, string, OscTypeTagString)

OscMessageAddAlternateString(oscMessage, string) ==
    AddStringAs(oscMessage, string, OscTypeTagAlternateString)

\* The four bytes of a 32-bit integer that is not negative, byte3 first.
Int32Bytes(n) == <<(n \div 16777216) % 256, (n \div 65536) % 256, (n \div 256) % 256, n % 256>>

\* The 32-bit two's complement integer of four bytes, byte3 first.
Int32Of(bytes) ==
    (IF bytes[1] >= 128 THEN bytes[1] - 256 ELSE bytes[1]) * 16777216
        + bytes[2] * 65536 + bytes[3] * 256 + bytes[4]

\* OscMessageAddBlob: the loop that pads the blob to a multiple of 4 bytes.
RECURSIVE AddBlobPad(_, _)
AddBlobPad(arguments, argumentsSize) ==
    IF (argumentsSize % 4) = 0
    THEN [failed |-> FALSE, oscString |-> arguments, oscStringSize |-> argumentsSize]
    ELSE IF argumentsSize >= MAX_ARGUMENTS_SIZE
    THEN [failed |-> TRUE, oscString |-> arguments, oscStringSize |-> argumentsSize]
    ELSE AddBlobPad(Poke(arguments, argumentsSize, 0), argumentsSize + 1)

\* source holds the numberOfBytes bytes of the blob.
OscMessageAddBlob(oscMessage, source) ==
    IF oscMessage.oscTypeTagStringLength > MAX_NUMBER_OF_ARGUMENTS
    THEN Returned(OscErrorTooManyArguments, oscMessage)
    ELSE IF (oscMessage.argumentsSize + SizeOfOscArgument32 + Len(source))
                > MAX_ARGUMENTS_SIZE
    THEN Returned(OscErrorArgumentsSizeTooLarge, oscMessage)
    ELSE AddPaddedEnd(oscMessage,
             AddBlobPad(PokeAll(oscMessage.arguments, oscMessage.argumentsSize,
                                Int32Bytes(Len(source)) \o source),
                        oscMessage.argumentsSize + SizeOfOscArgument32 + Len(source)),
             OscTypeTagBlob)

-----------------------------------------------------------------------------
(* OscMessage.c: serialisation and parsing *)

\* n increased to a multiple of 4.
MultipleOfFour(n) == IF (n % 4) # 0 THEN n + (4 - (n % 4)) ELSE n

OscMessageGetSize(oscMessage) ==
    MultipleOfFour(MultipleOfFour(oscMessage.oscAddressPatternLength + 1)
                       + oscMessage.oscTypeTagStringLength + 1)
        + oscMessage.argumentsSize

\* What OscMessageToCharArray returns: the error code, *oscMessageSize and the
\* bytes written to destination[0], destination[1], ...
Serialised(err, size, destination) ==
    [err |-> err, size |-> size, destination |-> destination]

\* OscMessageToCharArray: the arguments, t being what TerminateOscString
\* returned for the type tag string.
ToCharArrayArguments(oscMessage, destinationSize, t) ==
    IF t.failed
    THEN Serialised(OscErrorDestinationTooSmall, 0, t.oscString)
    ELSE IF (t.oscStringSize + oscMessage.argumentsSize) > destinationSize
    THEN Serialised(OscErrorDestinationTooSmall, 0, t.oscString)
    ELSE Serialised(OscErrorNone, t.oscStringSize + oscMessage.argumentsSize,
             PokeAll(t.oscString, t.oscStringSize,
                     PeekAll(oscMessage.arguments, 0, oscMessage.argumentsSize)))

\* OscMessageToCharArray: the type tag string, t being what TerminateOscString
\* returned for the address pattern.
ToCharArrayTypeTagString(oscMessage, destinationSize, t) ==
    IF t.failed
    THEN Serialised(OscErrorDestinationTooSmall, 0, t.oscString)
    ELSE IF (t.oscStringSize + oscMessage.oscTypeTagStringLength) > destinationSize
    THEN Serialised(OscErrorDestinationTooSmall, 0, t.oscString)
    ELSE ToCharArrayArguments(oscMessage, destinationSize,
             TerminateOscString(
                 PokeAll(t.oscString, t.oscStringSize,
                         PeekAll(oscMessage.oscTypeTagString, 0,
                                 oscMessage.oscTypeTagStringLength)),
                 t.oscStringSize + oscMessage.oscTypeTagStringLength,
                 destinationSize))

OscMessageToCharArray(oscMessage, destinationSize) ==
    IF oscMessage.oscAddressPatternLength = 0
    THEN Serialised(OscErrorUndefinedAddressPattern, 0, <<>>)
    ELSE IF Peek(oscMessage.oscAddressPattern, 0) # CharSlash
    THEN Serialised(OscErrorNoSlashAtStartOfMessage, 0, <<>>)
    ELSE IF oscMessage.oscAddressPatternLength > destinationSize
    THEN Serialised(OscErrorDestinationTooSmall, 0, <<>>)
    ELSE ToCharArrayTypeTagString(oscMessage, destinationSize,
             TerminateOscString(
                 PeekAll(oscMessage.oscAddressPattern, 0,
                         oscMessage.oscAddressPatternLength),
                 oscMessage.oscAddressPatternLength, destinationSize))

\* What the loops of OscMessageInitialiseFromCharArray return.
Parsed(err, oscMessage, sourceIndex) ==
    [err |-> err, msg |-> oscMessage, sourceIndex |-> sourceIndex]

\* OscMessageInitialiseFromCharArray: the loop that copies the address pattern.
RECURSIVE ParseAddressPattern(_, _, _, _)
ParseAddressPattern(oscMessage, source, numberOfBytes, sourceIndex) ==
    IF Peek(source, sourceIndex) = CharNull
    THEN Parsed(OscErrorNone,
             [oscMessage EXCEPT !.oscAddressPattern =
                 Poke(@, oscMessage.oscAddressPatternLength, CharNull)],
             sourceIndex)
    ELSE IF oscMessage.oscAddressPatternLength + 1 > MAX_OSC_ADDRESS_PATTERN_LENGTH
    THEN Parsed(OscErrorAddressPatternTooLong,
             [oscMessage EXCEPT
                 !.oscAddressPattern =
                     Poke(@, oscMessage.oscAddressPatternLength, Peek(source, sourceIndex)),
                 !.oscAddressPatternLength = @ + 1],
             sourceIndex)
    ELSE IF sourceIndex + 1 >= numberOfBytes
    THEN Parsed(OscErrorSourceEndsBeforeEndOfAddressPattern,
             [oscMessage EXCEPT
                 !.oscAddressPattern =
                     Poke(@, oscMessage.oscAddressPatternLength, Peek(source, sourceIndex)),
                 !.oscAddressPatternLength = @ + 1],
             sourceIndex + 1)
    ELSE ParseAddressPattern(
             [oscMessage EXCEPT
                 !.oscAddressPattern =
                     Poke(@, oscMessage.oscAddressPatternLength, Peek(source, sourceIndex)),
                 !.oscAddressPatternLength = @ + 1],
             source, numberOfBytes, sourceIndex + 1)

\* OscMessageInitialiseFromCharArray: the loop that advances the index past
\* the comma.
RECURSIVE ParseSkipToTypeTagString(_, _, _, _)
ParseSkipToTypeTagString(oscMessage, source, numberOfBytes, sourceIndex) ==
    IF Peek(source, sourceIndex - 1) = CharComma
    THEN Parsed(OscErrorNone, oscMessage, sourceIndex)
    ELSE IF sourceIndex + 1 >= numberOfBytes
    THEN Parsed(OscErrorSourceEndsBeforeStartOfTypeTagString, oscMessage, sourceIndex + 1)
    ELSE ParseSkipToTypeTagString(oscMessage, source, numberOfBytes, sourceIndex + 1)

\* OscMessageInitialiseFromCharArray: the loop that copies the type tag string.
RECURSIVE ParseTypeTagString(_, _, _, _)
ParseTypeTagString(oscMessage, source, numberOfBytes, sourceIndex) ==
    IF Peek(source, sourceIndex) = CharNull
    THEN Parsed(OscErrorNone,
             [oscMessage EXCEPT !.oscTypeTagString =
                 Poke(@, oscMessage.oscTypeTagStringLength, CharNull)],
             sourceIndex)
    ELSE IF oscMessage.oscTypeTagStringLength + 1 > MAX_OSC_TYPE_TAG_STRING_LENGTH
    THEN Parsed(OscErrorTypeTagStringToLong,
             [oscMessage EXCEPT
                 !.oscTypeTagString =
                     Poke(@, oscMessage.oscTypeTagStringLength, Peek(source, sourceIndex)),
                 !.oscTypeTagStringLength = @ + 1],
             sourceIndex)
    ELSE IF sourceIndex + 1 >= numberOfBytes
    THEN Parsed(OscErrorSourceEndsBeforeEndOfTypeTagString,
             [oscMessage EXCEPT
                 !.oscTypeTagString =
                     Poke(@, oscMessage.oscTypeTagStringLength, Peek(source, sourceIndex)),
                 !.oscTypeTagStringLength = @ + 1],
             sourceIndex + 1)
    ELSE ParseTypeTagString(
             [oscMessage EXCEPT
                 !.oscTypeTagString =
                     Poke(@, oscMessage.oscTypeTagStringLength, Peek(source, sourceIndex)),
                 !.oscTypeTagStringLength = @ + 1],
             source, numberOfBytes, sourceIndex + 1)

\* OscMessageInitialiseFromCharArray: the loop that advances the index to the
\* arguments.
RECURSIVE ParseSkipToArguments(_, _, _)
ParseSkipToArguments(oscMessage, numberOfBytes, sourceIndex) ==
    IF sourceIndex + 1 > numberOfBytes
    THEN Parsed(OscErrorUnexpectedEndOfSource, oscMessage, sourceIndex + 1)
    ELSE IF (sourceIndex + 1) % 4 # 0
    THEN ParseSkipToArguments(oscMessage, numberOfBytes, sourceIndex + 1)
    ELSE Parsed(OscErrorNone, oscMessage, sourceIndex + 1)

\* OscMessageInitialiseFromCharArray: the arguments, r being what the loop
\* before them returned.
ParseArguments(source, numberOfBytes, r) ==
    IF r.err # OscErrorNone THEN Returned(r.err, r.msg)
    ELSE IF r.sourceIndex >= numberOfBytes THEN Returned(OscErrorNone, r.msg)
    ELSE Returned(OscErrorNone,
             [r.msg EXCEPT
                 !.arguments = PokeAll(@, 0, PeekAll(source, r.sourceIndex,
                                                     numberOfBytes - r.sourceIndex)),
                 !.argumentsSize = numberOfBytes - r.sourceIndex])

\* OscMessageInitialiseFromCharArray from the type tag string on, r being what
\* the loop before it returned.
ParseFromTypeTagString(source, numberOfBytes, r) ==
    IF r.err # OscErrorNone THEN Returned(r.err, r.msg)
    ELSE ParseArguments(source, numberOfBytes,
             ParseSkipToArguments(r.msg, numberOfBytes, r.sourceIndex))

\* OscMessageInitialiseFromCharArray from the comma on.
ParseFromComma(source, numberOfBytes, r) ==
    IF r.err # OscErrorNone THEN Returned(r.err, r.msg)
    ELSE ParseFromTypeTagString(source, numberOfBytes,
             ParseTypeTagString(r.msg, source, numberOfBytes, r.sourceIndex))

\* OscMessageInitialiseFromCharArray from the end of the address pattern on.
ParseFromAddressPattern(source, numberOfBytes, r) ==
    IF r.err # OscErrorNone THEN Returned(r.err, r.msg)
    ELSE ParseFromComma(source, numberOfBytes,
             ParseSkipToTypeTagString(r.msg, source, numberOfBytes, r.sourceIndex))

OscMessageInitialiseFromCharArray(oscMessage, source, numberOfBytes) ==
    IF (numberOfBytes % 4) # 0
    THEN Returned(OscErrorSizeIsNotMultipleOfFour, InitialisedMessage(oscMessage))
    ELSE IF numberOfBytes < MIN_OSC_MESSAGE_SIZE
    THEN Returned(OscErrorMessageSizeTooSmall, InitialisedMessage(oscMessage))
    ELSE IF numberOfBytes > MAX_OSC_MESSAGE_SIZE
    THEN Returned(OscErrorMessageSizeTooLarge, InitialisedMessage(oscMessage))
    ELSE IF Peek(source, 0) # CharSlash
    THEN Returned(OscErrorNoSlashAtStartOfMessage, InitialisedMessage(oscMessage))
    ELSE ParseFromAddressPattern(source, numberOfBytes,
             ParseAddressPattern(InitialisedMessage(oscMessage), source, numberOfBytes, 0))

-----------------------------------------------------------------------------
(* OscMessage.c: the argument accessors *)

\* What an accessor returns: its error code, the structure as it leaves it,
\* and the bytes it has written to the value or the destination it was given.
Accessed(err, oscMessage, value) == [err |-> err, msg |-> oscMessage, value |-> value]

OscMessageIsArgumentAvailable(oscMessage) ==
    IF oscMessage.oscTypeTagStringLength = 0 THEN TRUE
    ELSE oscMessage.oscTypeTagStringIndex <= oscMessage.oscTypeTagStringLength - 1

OscMessageGetArgumentType(oscMessage) ==
    IF oscMessage.oscTypeTagStringIndex > oscMessage.oscTypeTagStringLength
    THEN CharNull
    ELSE Peek(oscMessage.oscTypeTagString, oscMessage.oscTypeTagStringIndex)

OscMessageSkipArgument(oscMessage) ==
    IF Peek(oscMessage.oscTypeTagString, oscMessage.oscTypeTagStringIndex) = CharNull
    THEN Accessed(OscErrorNoArgumentsAvailable, oscMessage, <<>>)
    ELSE Accessed(OscErrorNone,
             [oscMessage EXCEPT !.oscTypeTagStringIndex = @ + 1], <<>>)

\* The get functions for an argument of a fixed size: the value is the bytes
\* of the argument from its most significant byte to byte0.
GetArgument(oscMessage, tag, size) ==
    IF Peek(oscMessage.oscTypeTagString, oscMessage.oscTypeTagStringIndex) = CharNull
    THEN Accessed(OscErrorNoArgumentsAvailable, oscMessage, <<>>)
    ELSE IF Peek(oscMessage.oscTypeTagString, oscMessage.oscTypeTagStringIndex) # tag
    THEN Accessed(OscErrorUnexpectedArgumentType, oscMessage, <<>>)
    ELSE IF (oscMessage.argumentsIndex + size) > oscMessage.argumentsSize
    THEN Accessed(OscErrorMessageTooShortForArgumentType, oscMessage, <<>>)
    ELSE Accessed(OscErrorNone,
             [oscMessage EXCEPT !.argumentsIndex = @ + size,
                                !.oscTypeTagStringIndex = @ + 1],
             PeekAll(oscMessage.arguments, oscMessage.argumentsIndex, size))

OscMessageGetInt32(oscMessage) ==
    GetArgument(oscMessage, OscTypeTagInt32, SizeOfOscArgument32)

OscMessageGetFloat32(oscMessage) ==
    GetArgument(oscMessage, OscTypeTagFloat32, SizeOfOscArgument32)

OscMessageGetInt64(oscMessage) ==
    GetArgument(oscMessage, OscTypeTagInt64, SizeOfOscArgument64)

OscMessageGetTimeTag(oscMessage) ==
    GetArgument(oscMessage, OscTypeTagTimeTag, SizeOfOscArgument64)

OscMessageGetDouble(oscMessage) ==
    GetArgument(oscMessage, OscTypeTagDouble, SizeOfOscArgument64)

\* The character is the last of the argument's four bytes.
OscMessageGetCharacter(oscMessage) ==
    [GetArgument(oscMessage, OscTypeTagCharacter, SizeOfOscArgument32)
        EXCEPT !.value = IF @ = <<>> THEN @ ELSE <<@[4]>>]

OscMessageGetRgbaColour(oscMessage) ==
    GetArgument(oscMessage, OscTypeTagRgbaColour, SizeOfOscArgument32)

OscMessageGetMidiMessage(oscMessage) ==
    GetArgument(oscMessage, OscTypeTagMidiMessage, SizeOfOscArgument32)

\* OscMessageGetString, OscMessageGetBlob: the loop that advances the local
\* argumentsIndex to a multiple of 4, -1 when it passes argumentsSize.
RECURSIVE SkipPadding(_, _)
SkipPadding(argumentsIndex, argumentsSize) ==
    IF (argumentsIndex % 4) = 0 THEN argumentsIndex
    ELSE IF argumentsIndex + 1 > argumentsSize THEN -1
    ELSE SkipPadding(argumentsIndex + 1, argumentsSize)

\* OscMessageGetString: the loop that copies the string and its terminating
\* null to the destination.
RECURSIVE GetStringCopy(_, _, _, _, _)
GetStringCopy(arguments, argumentsIndex, destination, destinationIndex, destinationSize) ==
    IF destinationIndex + 1 > destinationSize
    THEN [failed |-> TRUE, argumentsIndex |-> argumentsIndex,
          destination |-> Poke(destination, destinationIndex,
                               Peek(arguments, argumentsIndex))]
    ELSE IF Peek(arguments, argumentsIndex) # CharNull
    THEN GetStringCopy(arguments, argumentsIndex + 1,
             Poke(destination, destinationIndex, Peek(arguments, argumentsIndex)),
             destinationIndex + 1, destinationSize)
    ELSE [failed |-> FALSE, argumentsIndex |-> argumentsIndex + 1,
          destination |-> Poke(destination, destinationIndex,
                               Peek(arguments, argumentsIndex))]

\* OscMessageGetString: the end of the function, c being what the copying
\* loop returned.
GetStringEnd(oscMessage, c) ==
    IF c.failed
    THEN Accessed(OscErrorDestinationTooSmall, oscMessage, c.destination)
    ELSE IF SkipPadding(c.argumentsIndex, oscMessage.argumentsSize) = -1
    THEN Accessed(OscErrorMessageTooShortForArgumentType, oscMessage, c.destination)
    ELSE Accessed(OscErrorNone,
             [oscMessage EXCEPT
                 !.argumentsIndex = SkipPadding(c.argumentsIndex, oscMessage.argumentsSize),
                 !.oscTypeTagStringIndex = @ + 1],
             c.destination)

OscMessageGetString(oscMessage, destinationSize) ==
    IF Peek(oscMessage.oscTypeTagString, oscMessage.oscTypeTagStringIndex) = CharNull
    THEN Accessed(OscErrorNoArgumentsAvailable, oscMessage, <<>>)
    ELSE IF Peek(oscMessage.oscTypeTagString, oscMessage.oscTypeTagStringIndex)
                \notin {OscTypeTagString, OscTypeTagAlternateString}
    THEN Accessed(OscErrorUnexpectedArgumentType, oscMessage, <<>>)
    ELSE IF (oscMessage.argumentsIndex + 4) > oscMessage.argumentsSize
    THEN Accessed(OscErrorMessageTooShortForArgumentType, oscMessage, <<>>)
    ELSE IF 4 > destinationSize
    THEN Accessed(OscErrorDestinationTooSmall, oscMessage, <<>>)
    ELSE GetStringEnd(oscMessage,
             GetStringCopy(oscMessage.arguments, oscMessage.argumentsIndex,
                           <<>>, 0, destinationSize))

\* OscMessageGetBlob: the end of the function, with the blob's size read.
\* The sum in the first test is of unsigned int and wraps at 2^32; in the
\* second test the size is converted to size_t.
GetBlobEnd(oscMessage, argumentsIndex, blobSize, destinationSize) ==
    IF \/ blobSize > MAX_ARGUMENTS_SIZE
       \/ argumentsIndex + blobSize < 0
       \/ (argumentsIndex + blobSize) > oscMessage.argumentsSize
    THEN Accessed(OscErrorMessageTooShortForArgumentType, oscMessage, <<>>)
    ELSE IF blobSize < 0 \/ blobSize > destinationSize
    THEN Accessed(OscErrorDestinationTooSmall, oscMessage, <<>>)
    ELSE IF SkipPadding(argumentsIndex + blobSize, oscMessage.argumentsSize) = -1
    THEN Accessed(OscErrorMessageTooShortForArgumentType, oscMessage,
             PeekAll(oscMessage.arguments, argumentsIndex, blobSize))
    ELSE Accessed(OscErrorNone,
             [oscMessage EXCEPT
                 !.argumentsIndex =
                     SkipPadding(argumentsIndex + blobSize, oscMessage.argumentsSize),
                 !.oscTypeTagStringIndex = @ + 1],
             PeekAll(oscMessage.arguments, argumentsIndex, blobSize))

\* The value is the blob, and *blobSize its length.
OscMessageGetBlob(oscMessage, destinationSize) ==
    IF Peek(oscMessage.oscTypeTagString, oscMessage.oscTypeTagStringIndex) = CharNull
    THEN Accessed(OscErrorNoArgumentsAvailable, oscMessage, <<>>)
    ELSE IF Peek(oscMessage.oscTypeTagString, oscMessage.oscTypeTagStringIndex)
                # OscTypeTagBlob
    THEN Accessed(OscErrorUnexpectedArgumentType, oscMessage, <<>>)
    ELSE IF (oscMessage.argumentsIndex + SizeOfOscArgument32) > oscMessage.argumentsSize
    THEN Accessed(OscErrorMessageTooShortForArgumentType, oscMessage, <<>>)
    ELSE GetBlobEnd(oscMessage, oscMessage.argumentsIndex + SizeOfOscArgument32,
             Int32Of(PeekAll(oscMessage.arguments, oscMessage.argumentsIndex,
                             SizeOfOscArgument32)),
             destinationSize)

\* OscMessageGetArgumentAsInt32, AsFloat32, AsInt64, AsTimeTag, AsDouble,
\* AsCharacter and AsBool: the same switch in each.  The value is the argument
\* read, which the function converts; it is empty for the four types that
\* have no argument.
GetArgumentAsNumber(oscMessage) ==
    IF ~OscMessageIsArgumentAvailable(oscMessage)
    THEN Accessed(OscErrorNoArgumentsAvailable, oscMessage, <<>>)
    ELSE CASE OscMessageGetArgumentType(oscMessage) = OscTypeTagInt32 ->
                  OscMessageGetInt32(oscMessage)
           [] OscMessageGetArgumentType(oscMessage) = OscTypeTagFloat32 ->
                  OscMessageGetFloat32(oscMessage)
           [] OscMessageGetArgumentType(oscMessage) = OscTypeTagInt64 ->
                  OscMessageGetInt64(oscMessage)
           [] OscMessageGetArgumentType(oscMessage) = OscTypeTagTimeTag ->
                  OscMessageGetTimeTag(oscMessage)
           [] OscMessageGetArgumentType(oscMessage) = OscTypeTagDouble ->
                  OscMessageGetDouble(oscMessage)
           [] OscMessageGetArgumentType(oscMessage) = OscTypeTagCharacter ->
                  OscMessageGetCharacter(oscMessage)
           [] OscMessageGetArgumentType(oscMessage) \in
                  {OscTypeTagTrue, OscTypeTagFalse, OscTypeTagNil, OscTypeTagInfinitum} ->
                  Accessed(OscErrorNone, oscMessage, <<>>)
           [] OTHER -> Accessed(OscErrorUnexpectedArgumentType, oscMessage, <<>>)

OscMessageGetArgumentAsInt32(oscMessage) == GetArgumentAsNumber(oscMessage)

OscMessageGetArgumentAsFloat32(oscMessage) == GetArgumentAsNumber(oscMessage)

OscMessageGetArgumentAsInt64(oscMessage) == GetArgumentAsNumber(oscMessage)

OscMessageGetArgumentAsTimeTag(oscMessage) == GetArgumentAsNumber(oscMessage)

OscMessageGetArgumentAsDouble(oscMessage) == GetArgumentAsNumber(oscMessage)

OscMessageGetArgumentAsCharacter(oscMessage) == GetArgumentAsNumber(oscMessage)

OscMessageGetArgumentAsBool(oscMessage) == GetArgumentAsNumber(oscMessage)

\* OscMessageGetArgumentAsString, case OscTypeTagBlob, r being what
\* OscMessageGetBlob returned.  before is the byte in front of the
\* destination, which the function reads for a blob of no bytes.
AsStringFromBlob(r, destinationSize, before) ==
    IF r.err # OscErrorNone THEN r
    ELSE IF (IF r.value = <<>> THEN before ELSE r.value[Len(r.value)]) = CharNull
    THEN r
    ELSE IF Len(r.value) >= destinationSize
    THEN Accessed(OscErrorDestinationTooSmall, r.msg, r.value)
    ELSE Accessed(OscErrorNone, r.msg, Append(r.value, CharNull))

\* OscMessageGetArgumentAsString and OscMessageGetArgumentAsBlob, case
\* OscTypeTagCharacter, r being what OscMessageGetCharacter returned and
\* needed the size the destination must have.
AsBytesFromCharacter(r, destinationSize, needed, terminator) ==
    IF r.err # OscErrorNone THEN r
    ELSE IF destinationSize < needed
    THEN Accessed(OscErrorDestinationTooSmall, r.msg, <<>>)
    ELSE Accessed(OscErrorNone, r.msg, r.value \o terminator)

OscMessageGetArgumentAsString(oscMessage, destinationSize, before) ==
    IF ~OscMessageIsArgumentAvailable(oscMessage)
    THEN Accessed(OscErrorNoArgumentsAvailable, oscMessage, <<>>)
    ELSE CASE OscMessageGetArgumentType(oscMessage)
                  \in {OscTypeTagString, OscTypeTagAlternateString} ->
                  OscMessageGetString(oscMessage, destinationSize)
           [] OscMessageGetArgumentType(oscMessage) = OscTypeTagBlob ->
                  AsStringFromBlob(OscMessageGetBlob(oscMessage, destinationSize),
                                   destinationSize, before)
           [] OscMessageGetArgumentType(oscMessage) = OscTypeTagCharacter ->
                  AsBytesFromCharacter(OscMessageGetCharacter(oscMessage),
                                       destinationSize, 2, <<CharNull>>)
           [] OTHER -> Accessed(OscErrorUnexpectedArgumentType, oscMessage, <<>>)

OscMessageGetArgumentAsBlob(oscMessage, destinationSize) ==
    IF ~OscMessageIsArgumentAvailable(oscMessage)
    THEN Accessed(OscErrorNoArgumentsAvailable, oscMessage, <<>>)
    ELSE CASE OscMessageGetArgumentType(oscMessage)
                  \in {OscTypeTagString, OscTypeTagAlternateString} ->
                  OscMessageGetString(oscMessage, destinationSize)
           [] OscMessageGetArgumentType(oscMessage) = OscTypeTagBlob ->
                  OscMessageGetBlob(oscMessage, destinationSize)
           [] OscMessageGetArgumentType(oscMessage) = OscTypeTagCharacter ->
                  AsBytesFromCharacter(OscMessageGetCharacter(oscMessage),
                                       destinationSize, 1, <<>>)
           [] OTHER -> Accessed(OscErrorUnexpectedArgumentType, oscMessage, <<>>)

\* OscMessageGetArgumentAsRgbaColour and OscMessageGetArgumentAsMidiMessage,
\* case OscTypeTagBlob, r being what OscMessageGetBlob returned.  The blob is
\* copied to the bytes of the pointer the function was given, not to the
\* object it points to: the value is empty.
AsFourBytesFromBlob(r) ==
    IF r.err # OscErrorNone THEN Accessed(r.err, r.msg, <<>>)
    ELSE IF Len(r.value) # SizeOfOscArgument32
    THEN Accessed(OscErrorUnexpectedEndOfSource, r.msg, <<>>)
    ELSE Accessed(OscErrorNone, r.msg, <<>>)

OscMessageGetArgumentAsRgbaColour(oscMessage) ==
    IF ~OscMessageIsArgumentAvailable(oscMessage)
    THEN Accessed(OscErrorNoArgumentsAvailable, oscMessage, <<>>)
    ELSE CASE OscMessageGetArgumentType(oscMessage) = OscTypeTagBlob ->
                  AsFourBytesFromBlob(OscMessageGetBlob(oscMessage, SizeOfOscArgument32))
           [] OscMessageGetArgumentType(oscMessage) = OscTypeTagRgbaColour ->
                  OscMessageGetRgbaColour(oscMessage)
           [] OTHER -> Accessed(OscErrorUnexpectedArgumentType, oscMessage, <<>>)

OscMessageGetArgumentAsMidiMessage(oscMessage) ==
    IF ~OscMessageIsArgumentAvailable(oscMessage)
    THEN Accessed(OscErrorNoArgumentsAvailable, oscMessage, <<>>)
    ELSE CASE OscMessageGetArgumentType(oscMessage) = OscTypeTagBlob ->
                  AsFourBytesFromBlob(OscMessageGetBlob(oscMessage, SizeOfOscArgument32))
           [] OscMessageGetArgumentType(oscMessage) = OscTypeTagMidiMessage ->
                  OscMessageGetMidiMessage(oscMessage)
           [] OTHER -> Accessed(OscErrorUnexpectedArgumentType, oscMessage, <<>>)

-----------------------------------------------------------------------------
(* OscCommon.c, OscBundle.h, OscBundle.c *)

\* oscContents is the memory at the pointer the function is given.
OscContentsIsMessage(oscContents) == Peek(oscContents, 0) = CharSlash

OscContentsIsBundle(oscContents) == Peek(oscContents, 0) = CharHash

\* The memory at a pointer to an OscMessage or an OscBundle structure: the
\* first member of the structure, the address pattern or the header.
StructureMemory(structure) ==
    IF "header" \in DOMAIN structure
    THEN structure.header
    ELSE structure.oscAddressPattern

\* "#bundle" and its terminating null
OSC_BUNDLE_HEADER == <<CharHash, 98, 117, 110, 100, 108, 101, CharNull>>

\* sizeof (OscTimeTag)
SizeOfOscTimeTag == 8

MIN_OSC_BUNDLE_SIZE == Len(OSC_BUNDLE_HEADER) + SizeOfOscTimeTag

MAX_OSC_BUNDLE_SIZE == MAX_TRANSPORT_SIZE

MAX_OSC_BUNDLE_ELEMENTS_SIZE ==
    MAX_OSC_BUNDLE_SIZE - Len(OSC_BUNDLE_HEADER) - SizeOfOscTimeTag

\* An OscBundle structure no function has written to.  oscTimeTag is the
\* bytes of the time tag from byte7 to byte0.
NewOscBundle ==
    [header |-> <<>>, oscTimeTag |-> <<>>, oscBundleElements |-> <<>>,
     oscBundleElementsSize |-> Uninitialised, oscBundleElementsIndex |-> Uninitialised]

OscBundleInitialise(oscBundle, oscTimeTag) ==
    [oscBundle EXCEPT !.header = OSC_BUNDLE_HEADER,
                      !.oscTimeTag = oscTimeTag,
                      !.oscBundleElementsSize = 0]

\* The (int) of the code is of 32 bits, and negative when the bundle holds
\* more than MAX_OSC_BUNDLE_ELEMENTS_SIZE - 4 bytes.
OscBundleGetRemainingCapacity(oscBundle) ==
    IF MAX_OSC_BUNDLE_ELEMENTS_SIZE - oscBundle.oscBundleElementsSize
           - SizeOfOscArgument32 < 0
    THEN 0
    ELSE MAX_OSC_BUNDLE_ELEMENTS_SIZE - oscBundle.oscBundleElementsSize
             - SizeOfOscArgument32

OscBundleEmpty(oscBundle) == [oscBundle EXCEPT !.oscBundleElementsSize = 0]

OscBundleIsEmpty(oscBundle) == oscBundle.oscBundleElementsSize = 0

OscBundleGetSize(oscBundle) ==
    Len(OSC_BUNDLE_HEADER) + SizeOfOscTimeTag + oscBundle.oscBundleElementsSize

\* What OscBundleToCharArray returns is what OscMessageToCharArray does: the
\* error code, *oscBundleSize and the bytes written to the destination.
OscBundleToCharArray(oscBundle, destinationSize) ==
    IF (Len(OSC_BUNDLE_HEADER) + SizeOfOscTimeTag + oscBundle.oscBundleElementsSize)
           > destinationSize
    THEN Serialised(OscErrorDestinationTooSmall, 0, <<>>)
    ELSE Serialised(OscErrorNone,
             Len(OSC_BUNDLE_HEADER) + SizeOfOscTimeTag + oscBundle.oscBundleElementsSize,
             PeekAll(oscBundle.header, 0, Len(OSC_BUNDLE_HEADER))
                 \o oscBundle.oscTimeTag
                 \o PeekAll(oscBundle.oscBundleElements, 0,
                            oscBundle.oscBundleElementsSize))

\* What the bundle functions return: the error code and the structure as the
\* function leaves it.
ReturnedBundle(err, oscBundle) == [err |-> err, bundle |-> oscBundle]

\* An end of OscBundleAddContents that does not count the four bytes of the
\* element's size.
AddContentsEndSizeNotCounted(oscBundle, r) ==
    IF r.err # OscErrorNone
    THEN ReturnedBundle(r.err, oscBundle)
    ELSE ReturnedBundle(OscErrorNone,
             [oscBundle EXCEPT
                 !.oscBundleElements =
                     PokeAll(@, oscBundle.oscBundleElementsSize,
                             Int32Bytes(r.size) \o r.destination),
                 !.oscBundleElementsSize = @ + r.size])

\* An end of OscBundleAddContents that keeps what was written of contents
\* that did not fit.
AddContentsEndKept(oscBundle, r) ==
    ReturnedBundle(r.err,
        [oscBundle EXCEPT
            !.oscBundleElements =
                PokeAll(@, oscBundle.oscBundleElementsSize,
                        Int32Bytes(Len(r.destination)) \o r.destination),
            !.oscBundleElementsSize = @ + SizeOfOscArgument32 + Len(r.destination)])

\* OscBundleAddContents: the end of the function, r being what
\* OscMessageToCharArray or OscBundleToCharArray returned and wrote behind
\* the four bytes of the element's size.
AddContentsEnd(oscBundle, r) ==
    IF r.err # OscErrorNone
    THEN ReturnedBundle(r.err,
             [oscBundle EXCEPT !.oscBundleElements =
                 PokeAll(@, oscBundle.oscBundleElementsSize + SizeOfOscArgument32,
                         r.destination)])
    ELSE ReturnedBundle(OscErrorNone,
             [oscBundle EXCEPT
                 !.oscBundleElements =
                     PokeAll(@, oscBundle.oscBundleElementsSize,
                             Int32Bytes(r.size) \o r.destination),
                 !.oscBundleElementsSize = @ + SizeOfOscArgument32 + r.size])

OscBundleAddContents(oscBundle, oscContents) ==
    IF (oscBundle.oscBundleElementsSize + SizeOfOscArgument32)
           > MAX_OSC_BUNDLE_ELEMENTS_SIZE
    THEN ReturnedBundle(OscErrorBundleFull, oscBundle)
    ELSE IF OscContentsIsMessage(StructureMemory(oscContents))
    THEN AddContentsEnd(oscBundle,
             OscMessageToCharArray(oscContents,
                                   OscBundleGetRemainingCapacity(oscBundle)))
    ELSE IF OscContentsIsBundle(StructureMemory(oscContents))
    THEN AddContentsEnd(oscBundle,
             OscBundleToCharArray(oscContents,
                                  OscBundleGetRemainingCapacity(oscBundle)))
    ELSE ReturnedBundle(OscErrorInvalidContents, oscBundle)

\* The memory at &buffer[i].
From(buffer, i) == SubSeq(buffer, i + 1, Len(buffer))

\* What OscBundleInitialiseFromCharArray returns: the error code, the
\* structure as the function leaves it, and sourceIndex, the number of bytes
\* of the source it has read.
ParsedBundle(err, oscBundle, sourceIndex) ==
    [err |-> err, bundle |-> oscBundle, sourceIndex |-> sourceIndex]

\* OscBundleInitialiseFromCharArray: the do-while loop that copies the bundle
\* elements.  It copies a byte, then tests whether sourceIndex has reached
\* numberOfBytes: it copies one byte where there is none to copy.
CopyBundleElements(oscBundle, source, numberOfBytes, sourceIndex) ==
    ParsedBundle(OscErrorNone,
        [oscBundle EXCEPT
            !.oscBundleElements =
                PokeAll(@, 0, PeekAll(source, sourceIndex,
                                      Max(1, numberOfBytes - sourceIndex))),
            !.oscBundleElementsSize = Max(1, numberOfBytes - sourceIndex)],
        sourceIndex + Max(1, numberOfBytes - sourceIndex))

\* source is the memory at the pointer the function is given.
OscBundleInitialiseFromCharArray(oscBundle, source, numberOfBytes) ==
    IF numberOfBytes % 4 # 0
    THEN ParsedBundle(OscErrorSizeIsNotMultipleOfFour, oscBundle, 0)
    ELSE IF numberOfBytes < MIN_OSC_BUNDLE_SIZE
    THEN ParsedBundle(OscErrorBundleSizeTooSmall, oscBundle, 0)
    ELSE IF numberOfBytes > MAX_OSC_BUNDLE_SIZE
    THEN ParsedBundle(OscErrorBundleSizeTooLarge, oscBundle, 0)
    ELSE IF Peek(source, 0) # CharHash
    THEN ParsedBundle(OscErrorNoHashAtStartOfBundle, oscBundle, 1)
    ELSE CopyBundleElements(
             [oscBundle EXCEPT
                 !.header = PeekAll(source, 0, Len(OSC_BUNDLE_HEADER)),
                 !.oscTimeTag = PeekAll(source, Len(OSC_BUNDLE_HEADER), SizeOfOscTimeTag),
                 !.oscBundleElementsSize = 0,
                 !.oscBundleElementsIndex = 0],
             source, numberOfBytes, Len(OSC_BUNDLE_HEADER) + SizeOfOscTimeTag)

OscBundleIsBundleElementAvailable(oscBundle) ==
    (oscBundle.oscBundleElementsIndex + SizeOfOscArgument32)
        < oscBundle.oscBundleElementsSize

\* What OscBundleGetBundleElement returns: the error code, the structure as
\* the function leaves it, and the OscBundleElement: its size, and the index
\* in oscBundleElements its contents points to.
GotBundleElement(err, oscBundle, size, contents) ==
    [err |-> err, bundle |-> oscBundle, size |-> size, contents |-> contents]

\* OscBundleGetBundleElement: the function with the element's size read, and
\* oscBundleElementsIndex, in oscBundle, behind it.
GetBundleElementEnd(oscBundle, size) ==
    IF size < 0
    THEN GotBundleElement(OscErrorNegativeBundleElementSize, oscBundle, size, Uninitialised)
    ELSE IF (size % 4) # 0
    THEN GotBundleElement(OscErrorSizeIsNotMultipleOfFour, oscBundle, size, Uninitialised)
    ELSE IF \/ size > MAX_OSC_BUNDLE_ELEMENTS_SIZE
            \/ (oscBundle.oscBundleElementsIndex + size) > oscBundle.oscBundleElementsSize
    THEN GotBundleElement(OscErrorInvalidElementSize, oscBundle, size, Uninitialised)
    ELSE GotBundleElement(OscErrorNone,
             [oscBundle EXCEPT !.oscBundleElementsIndex = @ + size],
             size, oscBundle.oscBundleElementsIndex)

OscBundleGetBundleElement(oscBundle) ==
    IF (oscBundle.oscBundleElementsIndex + SizeOfOscArgument32)
           >= oscBundle.oscBundleElementsSize
    THEN GotBundleElement(OscErrorBundleElementNotAvailable, oscBundle,
                          Uninitialised, Uninitialised)
    ELSE GetBundleElementEnd(
             [oscBundle EXCEPT !.oscBundleElementsIndex = @ + SizeOfOscArgument32],
             Int32Of(PeekAll(oscBundle.oscBundleElements,
                             oscBundle.oscBundleElementsIndex, SizeOfOscArgument32)))

-----------------------------------------------------------------------------
(* OscPacket.h, OscPacket.c *)

\* An OscPacket structure no function has written to.
NewOscPacket == [contents |-> <<>>, size |-> Uninitialised, processMessage |-> NULL]

OscPacketInitialise(oscPacket) ==
    [oscPacket EXCEPT !.size = 0, !.processMessage = NULL]

\* What the packet functions return: the error code and the structure as the
\* function leaves it.
ReturnedPacket(err, oscPacket) == [err |-> err, packet |-> oscPacket]

\* OscPacketInitialiseFromContents: r is what OscMessageToCharArray or
\* OscBundleToCharArray returned and wrote to the packet's contents.
PacketFromContents(oscPacket, r) ==
    ReturnedPacket(r.err,
        [oscPacket EXCEPT !.contents = PokeAll(@, 0, r.destination),
                          !.size = r.size,
                          !.processMessage = NULL])

OscPacketInitialiseFromContents(oscPacket, oscContents) ==
    IF OscContentsIsMessage(StructureMemory(oscContents))
    THEN PacketFromContents(oscPacket,
             OscMessageToCharArray(oscContents, MAX_OSC_PACKET_SIZE))
    ELSE IF OscContentsIsBundle(StructureMemory(oscContents))
    THEN PacketFromContents(oscPacket,
             OscBundleToCharArray(oscContents, MAX_OSC_PACKET_SIZE))
    ELSE ReturnedPacket(OscErrorInvalidContents,
             [oscPacket EXCEPT !.processMessage = NULL])

OscPacketInitialiseFromCharArray(oscPacket, source, numberOfBytes) ==
    IF numberOfBytes > MAX_OSC_PACKET_SIZE
    THEN ReturnedPacket(OscErrorPacketSizeTooLarge, [oscPacket EXCEPT !.size = 0])
    ELSE ReturnedPacket(OscErrorNone,
             [oscPacket EXCEPT
                 !.contents = PokeAll(@, 0, PeekAll(source, 0, numberOfBytes)),
                 !.size = numberOfBytes,
                 !.processMessage = NULL])

\* The NULL that OscPacketProcessMessages gives as the pointer to a time tag:
\* a pointer to a time tag is modelled as the bytes of the time tag.
NullTimeTag == <<>>

\* What DeconstructContents returns: the error code, and the calls of
\* processMessage it has made, each with the time tag and the OscMessage
\* structure the function was given.
Deconstructed(err, calls) == [err |-> err, calls |-> calls]

\* DeconstructContents: the contents is a message, r being what
\* OscMessageInitialiseFromCharArray returned.
DeconstructMessage(oscTimeTag, r) ==
    IF r.err # OscErrorNone
    THEN Deconstructed(r.err, <<>>)
    ELSE Deconstructed(OscErrorNone,
             <<[oscTimeTag |-> oscTimeTag, oscMessage |-> r.msg]>>)

RECURSIVE DeconstructContents(_, _, _)
RECURSIVE DeconstructBundle(_, _)
RECURSIVE DeconstructBundleElement(_, _)
RECURSIVE DeconstructNext(_, _, _)

\* DeconstructContents: the loop over the elements of oscBundle, calls being
\* the calls of processMessage made so far.
DeconstructBundle(oscBundle, calls) ==
    IF ~OscBundleIsBundleElementAvailable(oscBundle)
    THEN Deconstructed(OscErrorNone, calls)
    ELSE DeconstructBundleElement(calls, OscBundleGetBundleElement(oscBundle))

\* The loop with the element got, e being what OscBundleGetBundleElement
\* returned.
DeconstructBundleElement(calls, e) ==
    IF e.err # OscErrorNone
    THEN Deconstructed(e.err, calls)
    ELSE DeconstructNext(e.bundle, calls,
             DeconstructContents(e.bundle.oscTimeTag,
                                 From(e.bundle.oscBundleElements, e.contents), e.size))

\* A dispatcher that would record the calls of an element before those of
\* the elements in front of it.
DeconstructNextNewestFirst(oscBundle, calls, d) ==
    IF d.err # OscErrorNone
    THEN Deconstructed(d.err, d.calls \o calls)
    ELSE DeconstructBundle(oscBundle, d.calls \o calls)

\* A dispatcher that would go on to the next element after an element that
\* failed.
DeconstructNextAfterError(oscBundle, calls, d) ==
    DeconstructBundle(oscBundle, calls \o d.calls)

\* The loop with the element deconstructed, d being what the recursive call
\* of DeconstructContents returned.
DeconstructNext(oscBundle, calls, d) ==
    IF d.err # OscErrorNone
    THEN Deconstructed(d.err, calls \o d.calls)
    ELSE DeconstructBundle(oscBundle, calls \o d.calls)

\* DeconstructContents: the contents is a bundle, r being what
\* OscBundleInitialiseFromCharArray returned.
DeconstructParsedBundle(r) ==
    IF r.err # OscErrorNone
    THEN Deconstructed(r.err, <<>>)
    ELSE DeconstructBundle(r.bundle, <<>>)

\* oscContents is the memory at the pointer the function is given.
DeconstructContents(oscTimeTag, oscContents, contentsSize) ==
    IF contentsSize = 0
    THEN Deconstructed(OscErrorContentsEmpty, <<>>)
    ELSE IF OscContentsIsMessage(oscContents)
    THEN DeconstructMessage(oscTimeTag,
             OscMessageInitialiseFromCharArray(NewOscMessage, oscContents, contentsSize))
    ELSE IF OscContentsIsBundle(oscContents)
    THEN DeconstructParsedBundle(
             OscBundleInitialiseFromCharArray(NewOscBundle, oscContents, contentsSize))
    ELSE Deconstructed(OscErrorInvalidContents, <<>>)

OscPacketProcessMessages(oscPacket) ==
    IF oscPacket.processMessage = NULL
    THEN Deconstructed(OscErrorCallbackFunctionUndefined, <<>>)
    ELSE DeconstructContents(NullTimeTag, oscPacket.contents, oscPacket.size)

-----------------------------------------------------------------------------
(* The address matcher as a state machine: a pattern, a target address and *)
(* the memory behind the address are given, then one of the library's      *)
(* matcher functions is called on them.                                    *)

MaxPatternLen == 4
MaxAddressLen == 3
MaxAlternatives == 2

AddressChars == {CharSlash, CharA, CharB}

Addresses == SeqsUpTo(AddressChars, MaxAddressLen)

\* What may lie behind the terminating null of the address.
Tails == {<<>>, <<CharA>>}

\* Patterns whose only special character is '*'.
StarPatterns == SeqsUpTo(AddressChars \cup {CharStar}, MaxPatternLen)

\* Literal patterns that hold a closing bracket, a closing brace or a comma.
OddLiteralPatterns ==
    SeqsUpTo({CharSlash, CharA, CharCloseBracket, CharCloseBrace, CharComma}, MaxPatternLen - 1)

\* The curly braced list of the substrings alts: {alts[1],alts[2],...}
RECURSIVE JoinAlternatives(_)
JoinAlternatives(alts) ==
    IF Len(alts) = 1 THEN alts[1]
    ELSE alts[1] \o <<CharComma>> \o JoinAlternatives(Tail(alts))

BraceGroup(alts) == <<CharOpenBrace>> \o JoinAlternatives(alts) \o <<CharCloseBrace>>

Alternatives == {<<>>, <<CharA>>, <<CharB>>, <<CharA, CharB>>}

\* Patterns made of literal characters and one curly braced list.
BracePatterns ==
    {pre \o BraceGroup(alts) \o post :
        pre \in {<<CharSlash>>, <<CharSlash, CharA>>},
        alts \in UNION {[1..k -> Alternatives] : k \in 1..MaxAlternatives},
        post \in {<<>>, <<CharB>>, <<CharSlash, CharB>>}}

\* Patterns with '?' and '*'.
QuestionPatterns ==
    SeqsUpTo({CharSlash, CharA, CharQuestion, CharStar}, MaxPatternLen - 1)

\* Patterns with brackets and braces, closed or not, and with '*' and '!'.
ListPatterns ==
    SeqsUpTo({CharSlash, CharA, CharStar, CharBang, CharOpenBracket, CharCloseBracket,
              CharOpenBrace, CharCloseBrace}, MaxPatternLen)

Patterns ==
    StarPatterns \cup OddLiteralPatterns \cup BracePatterns
        \cup QuestionPatterns \cup ListPatterns

NoMatchResult == MatchReturn(FALSE, 0, 0, 0)

\* Before OscSlipEncodePacket is called.
NotEncoded ==
    [err |-> "none", slipPacketSize |-> 0, destination |-> <<>>, destinationSize |-> 0]

\* Before any call on the decoder.
NoSlipCall ==
    [op |-> "none", err |-> "none", byte |-> 0, index |-> 0, called |-> FALSE,
     contents |-> <<>>, frame |-> <<>>]

\* The SLIP codec where it is not used.
SlipIdle ==
    /\ slipPacket = <<>>
    /\ slipEncoded = NotEncoded
    /\ slipDecoder = OscSlipDecoderInitialise
    /\ slipFed = 0
    /\ slipErrors = {}
    /\ slipDelivered = <<>>
    /\ slipCall = NoSlipCall

\* Before any call of a function on the parts of the pattern.
NoPartCall ==
    [op |-> "none", index |-> 0, destinationSize |-> 0, numberOfParts |-> 0,
     err |-> OscErrorNone, destination |-> <<>>]

\* The address matcher where it is not used.
AddrIdle ==
    /\ pattern = <<>>
    /\ address = <<>>
    /\ tail = <<>>
    /\ matchOp = "none"
    /\ matchResult = NoMatchResult
    /\ partCall = NoPartCall

\* Before any call on the OscMessage structure.
NoMsgCall ==
    [op |-> "none", err |-> OscErrorNone, size |-> 0,
     before |-> [oscTypeTagStringIndex |-> 0, argumentsIndex |-> 0], value |-> <<>>]

\* Before OscMessageToCharArray is called.
NotSerialised ==
    [err |-> "none", size |-> 0, destination |-> <<>>, sent |-> NewOscMessage,
     sentBuilt |-> FALSE]

\* The OSC message where it is not used.
MsgIdle ==
    /\ message = NewOscMessage
    /\ msgCall = NoMsgCall
    /\ msgWire = NotSerialised
    /\ msgBuilt = FALSE
    /\ msgAdds = 0
    /\ msgParses = 0
    /\ msgReads = 0

\* A message as bundleHolds and packetHolds record it.
HeldMessage(oscMessage) ==
    [kind |-> "message", oscMessage |-> oscMessage, oscTimeTag |-> <<>>,
     elements |-> <<>>]

\* A bundle as bundleHolds and packetHolds record it: elements are the
\* messages and bundles it was given, in the order of the calls.
HeldBundle(oscTimeTag, elements) ==
    [kind |-> "bundle", oscMessage |-> NewOscMessage, oscTimeTag |-> oscTimeTag,
     elements |-> elements]

\* Before any call on a bundle.  A call is recorded with the bundle it was
\* made on, the structure as it was before the call, and the size given: of
\* the contents, of the destination or of the source.
NoBundleCall ==
    [op |-> "none", err |-> OscErrorNone, bundle |-> 0, size |-> 0, sourceIndex |-> 0,
     before |-> NewOscBundle]

\* Before OscBundleToCharArray is called.
BundleNotSerialised ==
    [err |-> "none", size |-> 0, destination |-> <<>>, bundle |-> 0,
     sent |-> NewOscBundle]

\* Before OscPacketProcessMessages is called.
NotDispatched == [op |-> "none", err |-> OscErrorNone, calls |-> <<>>]

\* The bundles and the packet where they are not used.
BundleIdle ==
    /\ bundles = <<>>
    /\ bundleHolds = <<>>
    /\ bundleCall = NoBundleCall
    /\ bundleWire = BundleNotSerialised
    /\ bundleAdds = 0
    /\ bundleParses = 0
    /\ packet = NewOscPacket
    /\ packetHolds = HeldBundle(<<>>, <<>>)
    /\ dispatched = NotDispatched

AddrInit ==
    /\ SlipIdle
    /\ MsgIdle
    /\ BundleIdle
    /\ pattern \in Patterns
    /\ address \in Addresses
    /\ tail \in Tails
    /\ matchOp = "none"
    /\ matchResult = NoMatchResult
    /\ partCall = NoPartCall

\* bool OscAddressMatch(oscAddressPattern, oscAddress)
CallOscAddressMatch ==
    /\ matchOp = "none"
    /\ matchOp' = "OscAddressMatch"
    /\ matchResult' = OscAddressMatch(pattern, AddressMemory(address, tail))
    /\ UNCHANGED <<pattern, address, tail, partCall>>

\* bool OscAddressMatchPartial(oscAddressPattern, oscAddress)
CallOscAddressMatchPartial ==
    /\ matchOp = "none"
    /\ matchOp' = "OscAddressMatchPartial"
    /\ matchResult' = OscAddressMatchPartial(pattern, AddressMemory(address, tail))
    /\ UNCHANGED <<pattern, address, tail, partCall>>

\* bool OscAddressIsLiteral(oscAddressPattern)
CallOscAddressIsLiteral ==
    /\ matchOp = "none"
    /\ matchOp' = "OscAddressIsLiteral"
    /\ matchResult' = MatchReturn(OscAddressIsLiteral(pattern), 0, 0, 0)
    /\ UNCHANGED <<pattern, address, tail, partCall>>

AddrNext ==
    \/ CallOscAddressMatch /\ UNCHANGED <<slipVars, msgVars, bundleVars>>
    \/ CallOscAddressMatchPartial /\ UNCHANGED <<slipVars, msgVars, bundleVars>>
    \/ CallOscAddressIsLiteral /\ UNCHANGED <<slipVars, msgVars, bundleVars>>

SpecAddr == AddrInit /\ [][AddrNext]_vars

-----------------------------------------------------------------------------
(* The functions on the parts of an address or address pattern as a state  *)
(* machine: a string is given, then one of the functions is called on it.  *)

MaxPartStringLen == 4
MaxPartIndex == 3

PartStrings == SeqsUpTo(AddressChars, MaxPartStringLen)

PartDestinationSizes == {1, 2, MaxPartStringLen + 1}

PartInit ==
    /\ SlipIdle
    /\ MsgIdle
    /\ BundleIdle
    /\ pattern \in PartStrings
    /\ address = <<>>
    /\ tail = <<>>
    /\ matchOp = "none"
    /\ matchResult = NoMatchResult
    /\ partCall = NoPartCall

\* unsigned int OscAddressGetNumberOfParts(oscAddressPattern)
CallOscAddressGetNumberOfParts ==
    /\ partCall.op = "none"
    /\ partCall' = [NoPartCall EXCEPT
                       !.op = "OscAddressGetNumberOfParts",
                       !.numberOfParts = OscAddressGetNumberOfParts(pattern)]
    /\ UNCHANGED <<pattern, address, tail, matchOp, matchResult>>

\* What partCall holds after OscAddressGetPartAtIndex returned r.
PartGot(index, destinationSize, r) ==
    [NoPartCall EXCEPT !.op = "OscAddressGetPartAtIndex",
                       !.index = index,
                       !.destinationSize = destinationSize,
                       !.err = r.err,
                       !.destination = r.destination]

\* OscError OscAddressGetPartAtIndex(oscAddressPattern, index, destination,
\* destinationSize)
CallOscAddressGetPartAtIndex ==
    /\ partCall.op = "none"
    /\ \E index \in 0..MaxPartIndex : \E destinationSize \in PartDestinationSizes :
          partCall' = PartGot(index, destinationSize,
                              OscAddressGetPartAtIndex(pattern, index, destinationSize))
    /\ UNCHANGED <<pattern, address, tail, matchOp, matchResult>>

PartNext ==
    \/ CallOscAddressGetNumberOfParts /\ UNCHANGED <<slipVars, msgVars, bundleVars>>
    \/ CallOscAddressGetPartAtIndex /\ UNCHANGED <<slipVars, msgVars, bundleVars>>

SpecPart == PartInit /\ [][PartNext]_vars

-----------------------------------------------------------------------------
(* The SLIP codec as a state machine: a packet is encoded into a           *)
(* destination of some size; the bytes of the encoded packet are then      *)
(* given one at a time to a decoder, to which the application may have     *)
(* assigned its processPacket function after initialising it.              *)

MaxSlipPacketLen == 3

SlipBytes == {SLIP_END, SLIP_ESC, SLIP_ESC_END, CharSlash}

\* Packets that fill, or nearly fill, the transport once encoded.
LongSlipPackets ==
    {Repeat(CharSlash, n) : n \in (MAX_OSC_PACKET_SIZE - 2)..MAX_OSC_PACKET_SIZE}
        \cup {Repeat(SLIP_END, n) :
                 n \in ((MAX_OSC_PACKET_SIZE - 2) \div 2)..(MAX_OSC_PACKET_SIZE \div 2)}

SlipPackets == SeqsUpTo(SlipBytes, MaxSlipPacketLen) \cup LongSlipPackets

\* The sizes of the destination given to the encoder: too small, just enough
\* and more than enough for the short packets, and enough for any packet.
SlipDestinationSizes == (0..(2 * MaxSlipPacketLen + 1)) \cup {2 * MAX_OSC_PACKET_SIZE + 1}

SlipInit ==
    /\ AddrIdle
    /\ MsgIdle
    /\ BundleIdle
    /\ slipPacket \in SlipPackets
    /\ slipEncoded = NotEncoded
    /\ slipDecoder = OscSlipDecoderInitialise
    /\ slipFed = 0
    /\ slipErrors = {}
    /\ slipDelivered = <<>>
    /\ slipCall = NoSlipCall

\* OscSlipEncodePacket(&oscPacket, &slipPacketSize, destination, destinationSize)
CallOscSlipEncodePacket ==
    /\ slipEncoded = NotEncoded
    /\ \E destinationSize \in SlipDestinationSizes :
          slipEncoded' = OscSlipEncodePacket(slipPacket, destinationSize)
    /\ UNCHANGED <<slipPacket, slipDecoder, slipFed, slipErrors, slipDelivered, slipCall>>

\* oscSlipDecoder.processPacket = ProcessPacket, after OscSlipDecoderInitialise
AssignProcessPacket ==
    /\ slipFed = 0
    /\ slipDecoder.processPacket = NULL
    /\ slipDecoder' = [slipDecoder EXCEPT !.processPacket = "ProcessPacket"]
    /\ UNCHANGED <<slipPacket, slipEncoded, slipFed, slipErrors, slipDelivered, slipCall>>

\* The encoder succeeded and wrote within the destination.
EncodedWithinDestination ==
    /\ slipEncoded.err = OscErrorNone
    /\ Len(slipEncoded.destination) <= slipEncoded.destinationSize

\* The bytes of the frame that byte continues or, after a SLIP_END, starts.
FrameWith(frame, byte) ==
    IF frame # <<>> /\ frame[Len(frame)] = SLIP_END THEN <<byte>> ELSE Append(frame, byte)

\* The record of a call of OscSlipDecoderProcessByte that returned r.
SlipByteProcessed(byte, r) ==
    [op |-> "OscSlipDecoderProcessByte", err |-> r.err, byte |-> byte,
     index |-> slipDecoder.bufferIndex, called |-> r.called, contents |-> r.contents,
     frame |-> FrameWith(slipCall.frame, byte)]

\* OscSlipDecoderProcessByte(&oscSlipDecoder, byte)
ProcessByte(byte) ==
    LET r == OscSlipDecoderProcessByte(slipDecoder, byte)
    IN  /\ slipDecoder' = r.decoder
        /\ slipErrors' = slipErrors \cup {r.err}
        /\ slipDelivered' = IF r.called THEN Append(slipDelivered, r.contents)
                                        ELSE slipDelivered
        /\ slipCall' = SlipByteProcessed(byte, r)
        /\ slipFed' = slipFed + 1

\* OscSlipDecoderProcessByte(&oscSlipDecoder, byte) for the next byte of the
\* encoded packet.
CallOscSlipDecoderProcessByte ==
    /\ EncodedWithinDestination
    /\ slipFed < slipEncoded.slipPacketSize
    /\ ProcessByte(slipEncoded.destination[slipFed + 1])
    /\ UNCHANGED <<slipPacket, slipEncoded>>

SlipNext ==
    \/ CallOscSlipEncodePacket /\ UNCHANGED <<addrVars, msgVars, bundleVars>>
    \/ AssignProcessPacket /\ UNCHANGED <<addrVars, msgVars, bundleVars>>
    \/ CallOscSlipDecoderProcessByte /\ UNCHANGED <<addrVars, msgVars, bundleVars>>

SpecSlip == SlipInit /\ [][SlipNext]_vars

-----------------------------------------------------------------------------
(* The SLIP decoder on a stream of bytes: a decoder that has got a number  *)
(* of bytes of a frame is given further bytes, one at a time, and may be   *)
(* cleared between them.                                                   *)

MaxStreamGap == 3
MaxStreamBytes == 4

\* The decoder after n calls of OscSlipDecoderProcessByte with the same byte
\* (evaluated by halves).
RECURSIVE DecoderFed(_, _, _)
DecoderFed(decoder, byte, n) ==
    IF n = 0 THEN decoder
    ELSE IF n = 1 THEN OscSlipDecoderProcessByte(decoder, byte).decoder
    ELSE LET half == DecoderFed(decoder, byte, n \div 2)
         IN  IF half.bufferIndex = 0 THEN half
             ELSE DecoderFed(half, byte, n - (n \div 2))

\* How many bytes of a frame the decoder has got already: none, or all but
\* the last few its buffer has room for.
StreamPrefills ==
    {0} \cup ((OSC_SLIP_DECODER_BUFFER_SIZE - MaxStreamGap)..(OSC_SLIP_DECODER_BUFFER_SIZE - 1))

\* The record of the last of n calls with the same byte, none of them SLIP_END.
SlipPrefilled(byte, n) ==
    IF n = 0 THEN NoSlipCall
    ELSE [op |-> "OscSlipDecoderProcessByte", err |-> OscErrorNone, byte |-> byte,
          index |-> n - 1, called |-> FALSE, contents |-> <<>>,
          frame |-> Repeat(byte, n)]

\* slipFed counts the bytes given from here on.
StreamInit ==
    /\ AddrIdle
    /\ MsgIdle
    /\ BundleIdle
    /\ slipPacket = <<>>
    /\ slipEncoded = NotEncoded
    /\ \E n \in StreamPrefills :
          /\ slipDecoder = DecoderFed(OscSlipDecoderInitialise, CharSlash, n)
          /\ slipCall = SlipPrefilled(CharSlash, n)
    /\ slipFed = 0
    /\ slipErrors = {}
    /\ slipDelivered = <<>>

\* OscSlipDecoderProcessByte(&oscSlipDecoder, byte) for any byte.
CallOscSlipDecoderProcessStreamByte ==
    /\ slipFed < MaxStreamBytes
    /\ \E byte \in SlipBytes : ProcessByte(byte)
    /\ UNCHANGED <<slipPacket, slipEncoded>>

\* OscSlipDecoderClearBuffer(&oscSlipDecoder)
CallOscSlipDecoderClearBuffer ==
    /\ slipDecoder' = OscSlipDecoderClearBuffer(slipDecoder)
    /\ slipCall' = [NoSlipCall EXCEPT !.op = "OscSlipDecoderClearBuffer",
                                      !.err = OscErrorNone,
                                      !.index = slipDecoder.bufferIndex]
    /\ UNCHANGED <<slipPacket, slipEncoded, slipFed, slipErrors, slipDelivered>>

StreamNext ==
    \/ AssignProcessPacket /\ UNCHANGED <<addrVars, msgVars, bundleVars>>
    \/ CallOscSlipDecoderProcessStreamByte /\ UNCHANGED <<addrVars, msgVars, bundleVars>>
    \/ CallOscSlipDecoderClearBuffer /\ UNCHANGED <<addrVars, msgVars, bundleVars>>

SpecStream == StreamInit /\ [][StreamNext]_vars

-----------------------------------------------------------------------------
(* The OSC message as a state machine: the application initialises an      *)
(* OscMessage structure, with an address pattern or from bytes it has      *)
(* received, then calls the add functions, OscMessageToCharArray and       *)
(* OscMessageInitialiseFromCharArray on the bytes OscMessageToCharArray    *)
(* wrote, in any order.  It reads the arguments of a message it has not    *)
(* serialised, does nothing else with a message it has begun to read, and  *)
(* adds no argument to a message it has received.                          *)

MaxAdds == 2
MaxParses == 2
MaxReads == 2

\* "/a", "/a,", "/abc"
MsgAddressPatterns ==
    {<<CharSlash, CharA>>, <<CharSlash, CharA, CharComma>>,
     <<CharSlash, CharA, CharB, CharA>>}

\* The add calls the application makes: the function and its argument (the
\* bytes of a number from its most significant one, the characters of a
\* string, the bytes of a blob, 1 or 0 for a bool).
AddCalls ==
    {[fn |-> "OscMessageAddInt32", arg |-> <<0, 0, 1, 0>>],
     [fn |-> "OscMessageAddFloat32", arg |-> <<63, 128, 0, 0>>],
     [fn |-> "OscMessageAddInt64", arg |-> <<0, 0, 0, 0, 0, 0, 1, 0>>],
     [fn |-> "OscMessageAddTimeTag", arg |-> <<0, 0, 0, 1, 128, 0, 0, 0>>],
     [fn |-> "OscMessageAddDouble", arg |-> <<63, 240, 0, 0, 0, 0, 0, 0>>],
     [fn |-> "OscMessageAddCharacter", arg |-> <<CharA>>],
     [fn |-> "OscMessageAddRgbaColour", arg |-> <<255, 128, 0, 255>>],
     [fn |-> "OscMessageAddMidiMessage", arg |-> <<0, 144, 60, 127>>],
     [fn |-> "OscMessageAddBool", arg |-> <<1>>],
     [fn |-> "OscMessageAddBool", arg |-> <<0>>],
     [fn |-> "OscMessageAddNil", arg |-> <<>>],
     [fn |-> "OscMessageAddInfinitum", arg |-> <<>>],
     [fn |-> "OscMessageAddBeginArray", arg |-> <<>>],
     [fn |-> "OscMessageAddEndArray", arg |-> <<>>],
     [fn |-> "OscMessageAddString", arg |-> <<>>],
     [fn |-> "OscMessageAddString", arg |-> <<CharA, CharB>>],
     [fn |-> "OscMessageAddString", arg |-> <<CharA, CharB, CharA, CharB>>],
     [fn |-> "OscMessageAddAlternateString", arg |-> <<CharA>>],
     [fn |-> "OscMessageAddBlob", arg |-> <<>>],
     [fn |-> "OscMessageAddBlob", arg |-> <<CharA>>],
     [fn |-> "OscMessageAddBlob", arg |-> <<CharA, CharNull>>],
     [fn |-> "OscMessageAddBlob", arg |-> <<CharA, CharB, CharA, CharB>>]}

\* The add function of a call, applied.
Add(oscMessage, call) ==
    CASE call.fn = "OscMessageAddInt32" -> OscMessageAddInt32(oscMessage, call.arg)
      [] call.fn = "OscMessageAddFloat32" -> OscMessageAddFloat32(oscMessage, call.arg)
      [] call.fn = "OscMessageAddInt64" -> OscMessageAddInt64(oscMessage, call.arg)
      [] call.fn = "OscMessageAddTimeTag" -> OscMessageAddTimeTag(oscMessage, call.arg)
      [] call.fn = "OscMessageAddDouble" -> OscMessageAddDouble(oscMessage, call.arg)
      [] call.fn = "OscMessageAddCharacter" ->
             OscMessageAddCharacter(oscMessage, call.arg[1])
      [] call.fn = "OscMessageAddRgbaColour" ->
             OscMessageAddRgbaColour(oscMessage, call.arg)
      [] call.fn = "OscMessageAddMidiMessage" ->
             OscMessageAddMidiMessage(oscMessage, call.arg)
      [] call.fn = "OscMessageAddBool" -> OscMessageAddBool(oscMessage, call.arg[1] # 0)
      [] call.fn = "OscMessageAddNil" -> OscMessageAddNil(oscMessage)
      [] call.fn = "OscMessageAddInfinitum" -> OscMessageAddInfinitum(oscMessage)
      [] call.fn = "OscMessageAddBeginArray" -> OscMessageAddBeginArray(oscMessage)
      [] call.fn = "OscMessageAddEndArray" -> OscMessageAddEndArray(oscMessage)
      [] call.fn = "OscMessageAddString" -> OscMessageAddString(oscMessage, call.arg)
      [] call.fn = "OscMessageAddAlternateString" ->
             OscMessageAddAlternateString(oscMessage, call.arg)
      [] call.fn = "OscMessageAddBlob" -> OscMessageAddBlob(oscMessage, call.arg)

\* The sizes of the destination given to OscMessageToCharArray.
MsgDestinationSizes == {4, 8, MAX_OSC_MESSAGE_SIZE}

\* The bytes of a string of at most three characters as an OSC string.
OscString(string) == string \o Repeat(CharNull, 4 - Len(string))

\* Bytes the application has received that no OscMessageToCharArray wrote:
\* a message that ends before its int32 argument, blobs whose size is
\* larger than the message or negative, a message without a type tag string
\* and one that does not start with '/'.
ReceivedMessages ==
    {OscString(<<CharSlash, CharA>>) \o OscString(<<CharComma, OscTypeTagInt32>>),
     OscString(<<CharSlash, CharA>>) \o OscString(<<CharComma, OscTypeTagBlob>>)
         \o <<0, 0, 0, 8, 1, 2, 3, 4>>,
     OscString(<<CharSlash, CharA>>) \o OscString(<<CharComma, OscTypeTagBlob>>)
         \o <<255, 255, 255, 252, 1, 2, 3, 4>>,
     OscString(<<CharSlash, CharA>>) \o OscString(<<CharComma, OscTypeTagBlob>>)
         \o <<255, 255, 255, 240, 1, 2, 3, 4>>,
     OscString(<<CharSlash, CharA>>) \o OscString(<<>>),
     OscString(<<CharA>>) \o OscString(<<CharComma>>)}

\* The accessor calls the application makes: the function, the size of the
\* destination it gives (0 for a function without one), and the byte that
\* lies in memory before the destination.
AccessCalls ==
    [fn : {"OscMessageSkipArgument",
           "OscMessageGetInt32", "OscMessageGetFloat32", "OscMessageGetInt64",
           "OscMessageGetTimeTag", "OscMessageGetDouble", "OscMessageGetCharacter",
           "OscMessageGetRgbaColour", "OscMessageGetMidiMessage",
           "OscMessageGetArgumentAsInt32", "OscMessageGetArgumentAsFloat32",
           "OscMessageGetArgumentAsInt64", "OscMessageGetArgumentAsTimeTag",
           "OscMessageGetArgumentAsDouble", "OscMessageGetArgumentAsCharacter",
           "OscMessageGetArgumentAsBool",
           "OscMessageGetArgumentAsRgbaColour", "OscMessageGetArgumentAsMidiMessage"},
     size : {0}, preceding : {CharNull}]
    \cup [fn : {"OscMessageGetString"}, size : {3, 4, 8}, preceding : {CharNull}]
    \cup [fn : {"OscMessageGetBlob", "OscMessageGetArgumentAsBlob"},
          size : {0, 2, 4}, preceding : {CharNull}]
    \cup [fn : {"OscMessageGetArgumentAsString"}, size : {1, 4, 8},
          preceding : {CharNull, CharA}]

\* The accessor of a call, applied.
Access(oscMessage, call) ==
    CASE call.fn = "OscMessageSkipArgument" -> OscMessageSkipArgument(oscMessage)
      [] call.fn = "OscMessageGetInt32" -> OscMessageGetInt32(oscMessage)
      [] call.fn = "OscMessageGetFloat32" -> OscMessageGetFloat32(oscMessage)
      [] call.fn = "OscMessageGetInt64" -> OscMessageGetInt64(oscMessage)
      [] call.fn = "OscMessageGetTimeTag" -> OscMessageGetTimeTag(oscMessage)
      [] call.fn = "OscMessageGetDouble" -> OscMessageGetDouble(oscMessage)
      [] call.fn = "OscMessageGetCharacter" -> OscMessageGetCharacter(oscMessage)
      [] call.fn = "OscMessageGetRgbaColour" -> OscMessageGetRgbaColour(oscMessage)
      [] call.fn = "OscMessageGetMidiMessage" -> OscMessageGetMidiMessage(oscMessage)
      [] call.fn = "OscMessageGetString" -> OscMessageGetString(oscMessage, call.size)
      [] call.fn = "OscMessageGetBlob" -> OscMessageGetBlob(oscMessage, call.size)
      [] call.fn = "OscMessageGetArgumentAsInt32" ->
             OscMessageGetArgumentAsInt32(oscMessage)
      [] call.fn = "OscMessageGetArgumentAsFloat32" ->
             OscMessageGetArgumentAsFloat32(oscMessage)
      [] call.fn = "OscMessageGetArgumentAsInt64" ->
             OscMessageGetArgumentAsInt64(oscMessage)
      [] call.fn = "OscMessageGetArgumentAsTimeTag" ->
             OscMessageGetArgumentAsTimeTag(oscMessage)
      [] call.fn = "OscMessageGetArgumentAsDouble" ->
             OscMessageGetArgumentAsDouble(oscMessage)
      [] call.fn = "OscMessageGetArgumentAsCharacter" ->
             OscMessageGetArgumentAsCharacter(oscMessage)
      [] call.fn = "OscMessageGetArgumentAsBool" ->
             OscMessageGetArgumentAsBool(oscMessage)
      [] call.fn = "OscMessageGetArgumentAsString" ->
             OscMessageGetArgumentAsString(oscMessage, call.size, call.preceding)
      [] call.fn = "OscMessageGetArgumentAsBlob" ->
             OscMessageGetArgumentAsBlob(oscMessage, call.size)
      [] call.fn = "OscMessageGetArgumentAsRgbaColour" ->
             OscMessageGetArgumentAsRgbaColour(oscMessage)
      [] call.fn = "OscMessageGetArgumentAsMidiMessage" ->
             OscMessageGetArgumentAsMidiMessage(oscMessage)

\* The two cursors of a message.
Cursors(oscMessage) ==
    [oscTypeTagStringIndex |-> oscMessage.oscTypeTagStringIndex,
     argumentsIndex |-> oscMessage.argumentsIndex]

\* A call as msgCall records it.
MsgCall(op, err, size, oscMessage, value) ==
    [op |-> op, err |-> err, size |-> size, before |-> Cursors(oscMessage),
     value |-> value]

\* The message after OscMessageInitialise(&oscMessage, oscAddressPattern), r
\* being what the function returned.
MsgInitialised(oscAddressPattern, r) ==
    /\ message = r.msg
    /\ msgCall = MsgCall("OscMessageInitialise", r.err, 0, NewOscMessage,
                         oscAddressPattern)
    /\ msgBuilt = (r.err = OscErrorNone)

\* The message after OscMessageInitialiseFromCharArray(&oscMessage, source,
\* numberOfBytes) on bytes received, r being what the function returned.
MsgReceived(source, r) ==
    /\ message = r.msg
    /\ msgCall = MsgCall("OscMessageInitialiseFromCharArray", r.err, Len(source),
                         NewOscMessage, source)
    /\ msgBuilt = FALSE

MsgInit ==
    /\ AddrIdle
    /\ SlipIdle
    /\ BundleIdle
    /\ \/ \E oscAddressPattern \in MsgAddressPatterns :
             MsgInitialised(oscAddressPattern,
                            OscMessageInitialise(NewOscMessage, oscAddressPattern))
       \/ \E source \in ReceivedMessages :
             MsgReceived(source,
                         OscMessageInitialiseFromCharArray(NewOscMessage, source,
                                                           Len(source)))
    /\ msgWire = NotSerialised
    /\ msgAdds = 0
    /\ msgParses = 0
    /\ msgReads = 0

\* An add call, r being what the function returned.
MsgAdded(call, r) ==
    /\ message' = r.msg
    /\ msgCall' = MsgCall(call.fn, r.err, Len(call.arg), message, call.arg)
    /\ msgBuilt' = (msgBuilt /\ r.err = OscErrorNone)

\* OscMessageAdd...(&oscMessage, ...)
CallOscMessageAdd ==
    /\ msgReads = 0
    /\ msgBuilt \/ msgParses > 0
    /\ msgAdds < MaxAdds
    /\ \E call \in AddCalls : MsgAdded(call, Add(message, call))
    /\ msgAdds' = msgAdds + 1
    /\ UNCHANGED <<msgWire, msgParses, msgReads>>

\* A call of OscMessageToCharArray, r being what the function returned.
MsgSerialised(destinationSize, r) ==
    /\ msgWire' = [err |-> r.err, size |-> r.size, destination |-> r.destination,
                   sent |-> message, sentBuilt |-> msgBuilt]
    /\ msgCall' = MsgCall("OscMessageToCharArray", r.err, destinationSize, message, <<>>)

\* OscMessageToCharArray(&oscMessage, &oscMessageSize, destination, destinationSize)
CallOscMessageToCharArray ==
    /\ msgReads = 0
    /\ \E destinationSize \in MsgDestinationSizes :
          MsgSerialised(destinationSize, OscMessageToCharArray(message, destinationSize))
    /\ UNCHANGED <<message, msgBuilt, msgAdds, msgParses, msgReads>>

\* A call of OscMessageInitialiseFromCharArray, r being what the function
\* returned.
MsgParsed(source, r) ==
    /\ message' = r.msg
    /\ msgCall' = MsgCall("OscMessageInitialiseFromCharArray", r.err, Len(source),
                          message, source)

\* OscMessageInitialiseFromCharArray(&oscMessage, source, numberOfBytes)
\* on the bytes OscMessageToCharArray wrote
CallOscMessageInitialiseFromCharArray ==
    /\ msgReads = 0
    /\ msgParses < MaxParses
    /\ msgWire.err = OscErrorNone
    /\ MsgParsed(msgWire.destination,
                 OscMessageInitialiseFromCharArray(message, msgWire.destination,
                                                   msgWire.size))
    /\ msgBuilt' = FALSE
    /\ msgParses' = msgParses + 1
    /\ UNCHANGED <<msgWire, msgAdds, msgReads>>

\* An accessor call, r being what the function returned.
MsgAccessed(call, r) ==
    /\ message' = r.msg
    /\ msgCall' = MsgCall(call.fn, r.err, call.size, message, r.value)

\* OscMessageGet...(&oscMessage, ...)
CallOscMessageGet ==
    /\ msgWire = NotSerialised
    /\ msgReads < MaxReads
    /\ \E call \in AccessCalls : MsgAccessed(call, Access(message, call))
    /\ msgReads' = msgReads + 1
    /\ UNCHANGED <<msgWire, msgBuilt, msgAdds, msgParses>>

MsgNext ==
    \/ CallOscMessageAdd /\ UNCHANGED <<addrVars, slipVars, bundleVars>>
    \/ CallOscMessageToCharArray /\ UNCHANGED <<addrVars, slipVars, bundleVars>>
    \/ CallOscMessageInitialiseFromCharArray /\ UNCHANGED <<addrVars, slipVars, bundleVars>>
    \/ CallOscMessageGet /\ UNCHANGED <<addrVars, slipVars, bundleVars>>

SpecMsg == MsgInit /\ [][MsgNext]_vars

-----------------------------------------------------------------------------
(* The address pattern of a message as a state machine: the application    *)
(* initialises a message and then sets its address pattern, appends parts  *)
(* to it or initialises it again.                                          *)

MaxPatternCalls == 3

\* "/aaa...a", one character short of the longest address pattern.
LongPart == <<CharSlash>> \o Repeat(CharA, MAX_OSC_ADDRESS_PATTERN_LENGTH - 2)

\* The strings the application gives: "", "a", "/", "/a", "/ab" and LongPart.
PatternArguments ==
    {<<>>, <<CharA>>, <<CharSlash>>, <<CharSlash, CharA>>, <<CharSlash, CharA, CharB>>,
     LongPart}

PatternInit ==
    /\ AddrIdle
    /\ SlipIdle
    /\ BundleIdle
    /\ \E oscAddressPattern \in PatternArguments :
          MsgInitialised(oscAddressPattern,
                         OscMessageInitialise(NewOscMessage, oscAddressPattern))
    /\ msgWire = NotSerialised
    /\ msgAdds = 0
    /\ msgParses = 0
    /\ msgReads = 0

\* A call that takes an address pattern, r being what the function returned;
\* msgAdds counts these calls.
PatternCalled(op, string, r) ==
    /\ msgAdds < MaxPatternCalls
    /\ message' = r.msg
    /\ msgCall' = MsgCall(op, r.err, 0, message, string)
    /\ msgBuilt' = (r.err = OscErrorNone)
    /\ msgAdds' = msgAdds + 1
    /\ UNCHANGED <<msgWire, msgParses, msgReads>>

\* OscMessageInitialise(&oscMessage, oscAddressPattern), again
CallOscMessageInitialise ==
    \E oscAddressPattern \in PatternArguments :
        PatternCalled("OscMessageInitialise", oscAddressPattern,
                      OscMessageInitialise(message, oscAddressPattern))

\* OscMessageSetAddressPattern(&oscMessage, oscAddressPattern)
CallOscMessageSetAddressPattern ==
    \E oscAddressPattern \in PatternArguments :
        PatternCalled("OscMessageSetAddressPattern", oscAddressPattern,
                      OscMessageSetAddressPattern(message, oscAddressPattern))

\* OscMessageAppendAddressPattern(&oscMessage, appendedParts)
CallOscMessageAppendAddressPattern ==
    \E appendedParts \in PatternArguments :
        PatternCalled("OscMessageAppendAddressPattern", appendedParts,
                      OscMessageAppendAddressPattern(message, appendedParts))

PatternNext ==
    \/ CallOscMessageInitialise /\ UNCHANGED <<addrVars, slipVars, bundleVars>>
    \/ CallOscMessageSetAddressPattern /\ UNCHANGED <<addrVars, slipVars, bundleVars>>
    \/ CallOscMessageAppendAddressPattern /\ UNCHANGED <<addrVars, slipVars, bundleVars>>

SpecPattern == PatternInit /\ [][PatternNext]_vars

-----------------------------------------------------------------------------
(* Large received messages as a state machine: the application gives the   *)
(* bytes it has received, with arguments of a size at the limits of the    *)
(* structure and of the transport, to OscMessageInitialiseFromCharArray.   *)

MaxLargeGap == 2
MaxLargeParses == 1

\* The sizes of the arguments: none, one word, the multiples of four around
\* MAX_ARGUMENTS_SIZE and those that fill the transport, or nearly.
LargeSizes ==
    {0, 4}
        \cup {4 * k : k \in ((MAX_ARGUMENTS_SIZE \div 4) - MaxLargeGap + 1)
                                ..((MAX_ARGUMENTS_SIZE \div 4) + MaxLargeGap)}
        \cup {MAX_OSC_MESSAGE_SIZE - 4 * k : k \in 1..(MaxLargeGap + 1)}

\* Received bytes: an address pattern, a type tag string and the arguments.
LargeReceived ==
    {OscString(a) \o OscString(t) \o Repeat(b, n) :
        a \in {<<CharSlash, CharA>>, <<CharSlash, CharA, CharB>>},
        t \in {<<CharComma>>, <<CharComma, OscTypeTagBlob>>, <<CharComma, OscTypeTagInt32>>},
        b \in {0, 1},
        n \in LargeSizes}

LargeInit ==
    /\ AddrIdle
    /\ SlipIdle
    /\ BundleIdle
    /\ \E oscAddressPattern \in MsgAddressPatterns :
          MsgInitialised(oscAddressPattern,
                         OscMessageInitialise(NewOscMessage, oscAddressPattern))
    /\ msgWire = NotSerialised
    /\ msgAdds = 0
    /\ msgParses = 0
    /\ msgReads = 0

\* OscMessageInitialiseFromCharArray(&oscMessage, source, numberOfBytes) on
\* bytes received
CallOscMessageInitialiseFromReceived ==
    /\ msgParses < MaxLargeParses
    /\ \E source \in LargeReceived :
          MsgParsed(source,
                    OscMessageInitialiseFromCharArray(message, source, Len(source)))
    /\ msgBuilt' = FALSE
    /\ msgParses' = msgParses + 1
    /\ UNCHANGED <<msgWire, msgAdds, msgReads>>

LargeNext ==
    CallOscMessageInitialiseFromReceived /\ UNCHANGED <<addrVars, slipVars, bundleVars>>

SpecLarge == LargeInit /\ [][LargeNext]_vars

-----------------------------------------------------------------------------
(* Messages at their limits as a state machine: the application has       *)
(* initialised a message and added a large blob, or none, and a number of  *)
(* nil arguments to it, and goes on adding arguments.                      *)

\* The blobs leave 3 + 4 * k bytes of the arguments array, k up to MaxFillGap.
MaxFillGap == 4
\* The nil arguments leave at most MaxFillRoom of the type tags.
MaxFillRoom == 3

\* The add calls made before the first state: no blob or one blob of zeros,
\* then nil arguments.
FillBlobs ==
    {<<>>} \cup
    {<<[fn |-> "OscMessageAddBlob",
        arg |-> Repeat(0, MAX_ARGUMENTS_SIZE - 3 - SizeOfOscArgument32 - (4 * k))]>> :
        k \in 0..MaxFillGap}

FillNils ==
    {Repeat([fn |-> "OscMessageAddNil", arg |-> <<>>], n) :
        n \in {0} \cup ((MAX_NUMBER_OF_ARGUMENTS - MaxFillRoom)..MAX_NUMBER_OF_ARGUMENTS)}

FillPrefixes ==
    {blob \o nils : blob \in FillBlobs, nils \in FillNils}

\* The message after the add calls, made in their order.
RECURSIVE FillWith(_, _)
FillWith(r, calls) ==
    IF calls = <<>> THEN r
    ELSE IF r.err # OscErrorNone THEN r
    ELSE FillWith(Add(r.msg, Head(calls)), Tail(calls))

\* The state after the calls, r being what the last of them returned.
Filled(calls, r) ==
    /\ r.err = OscErrorNone
    /\ message = r.msg
    /\ msgCall = IF calls = <<>>
                 THEN MsgCall("OscMessageInitialise", r.err, 0, NewOscMessage,
                              <<CharSlash, CharA>>)
                 ELSE MsgCall(calls[Len(calls)].fn, r.err, Len(calls[Len(calls)].arg),
                              r.msg, calls[Len(calls)].arg)
    /\ msgBuilt = TRUE

FillInit ==
    /\ AddrIdle
    /\ SlipIdle
    /\ BundleIdle
    /\ \E calls \in FillPrefixes :
          Filled(calls,
                 FillWith(OscMessageInitialise(NewOscMessage, <<CharSlash, CharA>>),
                          calls))
    /\ msgWire = NotSerialised
    /\ msgAdds = 0
    /\ msgParses = 0
    /\ msgReads = 0

FillNext ==
    \/ CallOscMessageAdd /\ UNCHANGED <<addrVars, slipVars, bundleVars>>

SpecFill == FillInit /\ [][FillNext]_vars

-----------------------------------------------------------------------------
(* Bundles and packets as a state machine: the application initialises     *)
(* some OscBundle structures, each with its time tag, and adds messages    *)
(* and bundles to them.  Then it either serialises a bundle and parses the *)
(* bytes written into the same structure, or makes a packet of a message   *)
(* or bundle, assigns its processMessage function and calls                *)
(* OscPacketProcessMessages.                                               *)

NumBundles == 3
MaxBundleAdds == 3
MaxBundleParses == 2

Bundles == 1..NumBundles

\* The time tag the application gives to each bundle.
TimeTagOf(b) == <<0, 0, 0, 1, 0, 0, 0, b>>

\* The messages the application adds to bundles: "/a" without arguments and
\* "/b" with an int32.
BundleMessages ==
    {OscMessageInitialise(NewOscMessage, <<CharSlash, CharA>>).msg,
     OscMessageAddInt32(OscMessageInitialise(NewOscMessage, <<CharSlash, CharB>>).msg,
                        <<0, 0, 1, 0>>).msg}

\* The sizes of the destination given to OscBundleToCharArray.
BundleDestinationSizes == {MIN_OSC_BUNDLE_SIZE, MAX_OSC_BUNDLE_SIZE}

\* The values of the byte that lies behind the bytes OscBundleToCharArray
\* wrote.
BytesBehind == {0, 255}

BundleInit ==
    /\ AddrIdle
    /\ SlipIdle
    /\ MsgIdle
    /\ bundles = [b \in Bundles |-> OscBundleInitialise(NewOscBundle, TimeTagOf(b))]
    /\ bundleHolds = [b \in Bundles |-> HeldBundle(TimeTagOf(b), <<>>)]
    /\ bundleCall = NoBundleCall
    /\ bundleWire = BundleNotSerialised
    /\ bundleAdds = 0
    /\ bundleParses = 0
    /\ packet = OscPacketInitialise(NewOscPacket)
    /\ packetHolds = HeldBundle(<<>>, <<>>)
    /\ dispatched = NotDispatched

\* OscBundleAddContents(&bundles[b], oscContents) has returned r; held is
\* what the contents holds and size what OscMessageGetSize or
\* OscBundleGetSize returns for it.
BundleAdded(b, held, size, r) ==
    /\ bundles' = [bundles EXCEPT ![b] = r.bundle]
    /\ bundleHolds' =
           IF r.err = OscErrorNone
           THEN [bundleHolds EXCEPT ![b].elements = Append(@, held)]
           ELSE bundleHolds
    /\ bundleCall' = [NoBundleCall EXCEPT !.op = "OscBundleAddContents",
                                          !.err = r.err, !.bundle = b,
                                          !.size = size, !.before = bundles[b]]

\* OscBundleAddContents(&oscBundle, &oscMessage), OscBundleAddContents(&oscBundle,
\* &otherBundle)
CallOscBundleAddContents ==
    /\ bundleAdds < MaxBundleAdds
    /\ bundleWire = BundleNotSerialised
    /\ packet.size = 0
    /\ \E b \in Bundles :
          \/ \E oscMessage \in BundleMessages :
                BundleAdded(b, HeldMessage(oscMessage), OscMessageGetSize(oscMessage),
                            OscBundleAddContents(bundles[b], oscMessage))
          \/ \E other \in Bundles :
                BundleAdded(b, bundleHolds[other], OscBundleGetSize(bundles[other]),
                            OscBundleAddContents(bundles[b], bundles[other]))
    /\ bundleAdds' = bundleAdds + 1
    /\ UNCHANGED <<bundleWire, bundleParses, packet, packetHolds, dispatched>>

\* OscBundleToCharArray(&bundles[b], ...) has returned r.
BundleSerialised(b, destinationSize, r) ==
    /\ bundleWire' = [err |-> r.err, size |-> r.size, destination |-> r.destination,
                      bundle |-> b, sent |-> bundles[b]]
    /\ bundleCall' = [NoBundleCall EXCEPT !.op = "OscBundleToCharArray",
                                          !.err = r.err, !.bundle = b,
                                          !.size = destinationSize,
                                          !.before = bundles[b]]

\* OscBundleToCharArray(&oscBundle, &oscBundleSize, destination, destinationSize)
CallOscBundleToCharArray ==
    /\ packet.size = 0
    /\ \E b \in Bundles, destinationSize \in BundleDestinationSizes :
          BundleSerialised(b, destinationSize,
                           OscBundleToCharArray(bundles[b], destinationSize))
    /\ UNCHANGED <<bundles, bundleHolds, bundleAdds, bundleParses, packet, packetHolds,
                   dispatched>>

\* OscBundleInitialiseFromCharArray(&bundles[b], ...) has returned r.
BundleParsed(b, numberOfBytes, r) ==
    /\ bundles' = [bundles EXCEPT ![b] = r.bundle]
    /\ bundleCall' = [op |-> "OscBundleInitialiseFromCharArray", err |-> r.err,
                      bundle |-> b, size |-> numberOfBytes,
                      sourceIndex |-> r.sourceIndex, before |-> bundles[b]]

\* OscBundleInitialiseFromCharArray(&oscBundle, source, numberOfBytes) on the
\* bytes OscBundleToCharArray wrote for the bundle
CallOscBundleInitialiseFromCharArray ==
    /\ bundleParses < MaxBundleParses
    /\ bundleWire.err = OscErrorNone
    /\ \E behind \in BytesBehind :
          BundleParsed(bundleWire.bundle, bundleWire.size,
                       OscBundleInitialiseFromCharArray(
                           bundles[bundleWire.bundle],
                           bundleWire.destination \o <<behind>>, bundleWire.size))
    /\ bundleParses' = bundleParses + 1
    /\ UNCHANGED <<bundleHolds, bundleWire, bundleAdds, packet, packetHolds, dispatched>>

\* OscPacketInitialiseFromContents(&oscPacket, oscContents) has returned r;
\* held is what the contents holds.
PacketMade(held, r) ==
    /\ packet' = r.packet
    /\ packetHolds' = held

\* OscPacketInitialiseFromContents(&oscPacket, &oscMessage),
\* OscPacketInitialiseFromContents(&oscPacket, &oscBundle)
CallOscPacketInitialiseFromContents ==
    /\ bundleWire = BundleNotSerialised
    /\ packet.size = 0
    /\ \/ \E oscMessage \in BundleMessages :
             PacketMade(HeldMessage(oscMessage),
                        OscPacketInitialiseFromContents(packet, oscMessage))
       \/ \E b \in Bundles :
             PacketMade(bundleHolds[b],
                        OscPacketInitialiseFromContents(packet, bundles[b]))
    /\ UNCHANGED <<bundles, bundleHolds, bundleCall, bundleWire, bundleAdds,
                   bundleParses, dispatched>>

\* oscPacket.processMessage = ProcessMessage, after the packet is initialised
AssignProcessMessage ==
    /\ packet.size > 0
    /\ packet.processMessage = NULL
    /\ dispatched = NotDispatched
    /\ packet' = [packet EXCEPT !.processMessage = "ProcessMessage"]
    /\ UNCHANGED <<bundles, bundleHolds, bundleCall, bundleWire, bundleAdds,
                   bundleParses, packetHolds, dispatched>>

\* OscPacketProcessMessages(&oscPacket) has returned r.
PacketProcessed(r) ==
    dispatched' = [op |-> "OscPacketProcessMessages", err |-> r.err, calls |-> r.calls]

\* OscPacketProcessMessages(&oscPacket)
CallOscPacketProcessMessages ==
    /\ packet.size > 0
    /\ dispatched = NotDispatched
    /\ PacketProcessed(OscPacketProcessMessages(packet))
    /\ UNCHANGED <<bundles, bundleHolds, bundleCall, bundleWire, bundleAdds,
                   bundleParses, packet, packetHolds>>

BundleNext ==
    \/ CallOscBundleAddContents /\ UNCHANGED <<addrVars, slipVars, msgVars>>
    \/ CallOscBundleToCharArray /\ UNCHANGED <<addrVars, slipVars, msgVars>>
    \/ CallOscBundleInitialiseFromCharArray /\ UNCHANGED <<addrVars, slipVars, msgVars>>
    \/ CallOscPacketInitialiseFromContents /\ UNCHANGED <<addrVars, slipVars, msgVars>>
    \/ AssignProcessMessage /\ UNCHANGED <<addrVars, slipVars, msgVars>>
    \/ CallOscPacketProcessMessages /\ UNCHANGED <<addrVars, slipVars, msgVars>>

SpecBundle == BundleInit /\ [][BundleNext]_vars

-----------------------------------------------------------------------------
(* Bundles at their limit as a state machine: the application has added a  *)
(* message with a large blob to the first bundle, and a second message     *)
(* that takes what is left of the bundle but a few bytes, or none, and     *)
(* goes on adding messages and bundles to its bundles.                     *)

\* The second message leaves room for 4 * j bytes less than the first left,
\* j up to MaxFreeWords.
MaxFreeWords == 5

\* "/a" with a blob of n bytes, all 0.
BlobMessage(n) ==
    OscMessageAddBlob(OscMessageInitialise(NewOscMessage, <<CharSlash, CharA>>).msg,
                      Repeat(0, n)).msg

\* The message with the largest blob that a message holds.
LargeMessage == BlobMessage(MAX_ARGUMENTS_SIZE - 3 - SizeOfOscArgument32)

\* The messages added to the first bundle before the first state: the large
\* message, then none or one whose size is the capacity that is left or
\* 4 * j bytes less.
FullPrefixes ==
    {<<LargeMessage>>} \cup
    {<<LargeMessage,
       BlobMessage(OscBundleGetRemainingCapacity(
                       OscBundleAddContents(OscBundleInitialise(NewOscBundle, TimeTagOf(1)),
                                            LargeMessage).bundle)
                   - OscMessageGetSize(BlobMessage(0)) - (4 * j))>> :
        j \in 0..MaxFreeWords}

\* The bundle after the messages are added to it, in their order.
RECURSIVE FullWith(_, _)
FullWith(r, messages) ==
    IF messages = <<>> THEN r
    ELSE IF r.err # OscErrorNone THEN r
    ELSE FullWith(OscBundleAddContents(r.bundle, Head(messages)), Tail(messages))

\* The first bundle as it was before the last of the messages was added.
FullBefore(messages) ==
    FullWith(ReturnedBundle(OscErrorNone,
                 OscBundleInitialise(NewOscBundle, TimeTagOf(1))),
             SubSeq(messages, 1, Len(messages) - 1)).bundle

\* The state after the messages are added, r being what the last
\* OscBundleAddContents returned.
Full(messages, r) ==
    /\ r.err = OscErrorNone
    /\ bundles = [b \in Bundles |->
                     IF b = 1 THEN r.bundle
                     ELSE OscBundleInitialise(NewOscBundle, TimeTagOf(b))]
    /\ bundleHolds = [b \in Bundles |->
                         IF b = 1
                         THEN HeldBundle(TimeTagOf(b),
                                  [k \in 1..Len(messages) |-> HeldMessage(messages[k])])
                         ELSE HeldBundle(TimeTagOf(b), <<>>)]
    /\ bundleCall = [NoBundleCall EXCEPT
                         !.op = "OscBundleAddContents", !.err = r.err, !.bundle = 1,
                         !.size = OscMessageGetSize(messages[Len(messages)]),
                         !.before = FullBefore(messages)]

FullInit ==
    /\ AddrIdle
    /\ SlipIdle
    /\ MsgIdle
    /\ \E messages \in FullPrefixes :
          Full(messages,
               FullWith(ReturnedBundle(OscErrorNone,
                            OscBundleInitialise(NewOscBundle, TimeTagOf(1))),
                        messages))
    /\ bundleWire = BundleNotSerialised
    /\ bundleAdds = 0
    /\ bundleParses = 0
    /\ packet = OscPacketInitialise(NewOscPacket)
    /\ packetHolds = HeldBundle(<<>>, <<>>)
    /\ dispatched = NotDispatched

FullNext ==
    \/ CallOscBundleAddContents /\ UNCHANGED <<addrVars, slipVars, msgVars>>

SpecFull == FullInit /\ [][FullNext]_vars

-----------------------------------------------------------------------------
(* Received packets as a state machine: the application has received the   *)
(* bytes of a bundle, well formed or not, and made a packet of them.  It   *)
(* assigns processMessage and calls OscPacketProcessMessages; it also      *)
(* parses the bytes into its first OscBundle structure and gets the        *)
(* elements of it one by one.                                              *)

\* The received bundle has at most MaxElements elements.
MaxElements == 3

\* The elements of a received bundle: a message without arguments, a message
\* with an int32, a size of -4, a size of 6, a size larger than the bundle, an
\* element of no bytes, contents that start with neither '/' nor '#', a
\* message too short to be one, a bundle that holds a message, and a bundle
\* that holds a message, a size of -4 and a message.
ElementKinds ==
    {"message", "int", "negative", "odd", "long", "empty", "invalid", "short",
     "bundle", "badbundle"}

MessageBytes == OscString(<<CharSlash, CharA>>) \o OscString(<<CharComma>>)

IntMessageBytes ==
    OscString(<<CharSlash, CharB>>) \o OscString(<<CharComma, OscTypeTagInt32>>)
        \o <<0, 0, 1, 0>>

MinusFourBytes == <<255, 255, 255, 252>>

\* The bytes of a bundle element: its size and its contents.
Element(contents) == Int32Bytes(Len(contents)) \o contents

\* The bytes of a bundle with the time tag of bundle b and the given bytes
\* as its elements.
BundleBytes(b, elements) == OSC_BUNDLE_HEADER \o TimeTagOf(b) \o elements

ElementBytes(kind) ==
    CASE kind = "message" -> Element(MessageBytes)
      [] kind = "int" -> Element(IntMessageBytes)
      [] kind = "negative" -> MinusFourBytes
      [] kind = "odd" -> Int32Bytes(6) \o MessageBytes
      [] kind = "long" -> Int32Bytes(MAX_OSC_BUNDLE_SIZE) \o MessageBytes
      [] kind = "empty" -> Element(<<>>)
      [] kind = "invalid" -> Element(OscString(<<CharA>>))
      [] kind = "short" -> Element(OscString(<<CharSlash, CharA>>))
      [] kind = "bundle" -> Element(BundleBytes(2, Element(IntMessageBytes)))
      [] kind = "badbundle" ->
             Element(BundleBytes(2, Element(IntMessageBytes) \o MinusFourBytes
                                        \o Element(MessageBytes)))

\* The bytes of the elements of the kinds, one behind the other.
RECURSIVE ElementsBytes(_)
ElementsBytes(kinds) ==
    IF kinds = <<>> THEN <<>>
    ELSE ElementBytes(Head(kinds)) \o ElementsBytes(Tail(kinds))

\* Received bytes as packetHolds records them: the kinds of the elements.
HeldReceived(kinds) ==
    [kind |-> "received", oscMessage |-> NewOscMessage, oscTimeTag |-> TimeTagOf(1),
     elements |-> kinds]

\* OscPacketInitialiseFromCharArray(&oscPacket, source, numberOfBytes) has
\* returned r on the bytes of a bundle with elements of the kinds.
PacketReceived(kinds, r) ==
    /\ r.err = OscErrorNone
    /\ packet = r.packet
    /\ packetHolds = HeldReceived(kinds)

ReceiveInit ==
    /\ AddrIdle
    /\ SlipIdle
    /\ MsgIdle
    /\ bundles = [b \in Bundles |-> OscBundleInitialise(NewOscBundle, TimeTagOf(b))]
    /\ bundleHolds = [b \in Bundles |-> HeldBundle(TimeTagOf(b), <<>>)]
    /\ bundleCall = NoBundleCall
    /\ bundleWire = BundleNotSerialised
    /\ bundleAdds = 0
    /\ bundleParses = 0
    /\ \E kinds \in SeqsUpTo(ElementKinds, MaxElements) :
          PacketReceived(kinds,
              OscPacketInitialiseFromCharArray(
                  OscPacketInitialise(NewOscPacket),
                  BundleBytes(1, ElementsBytes(kinds)),
                  Len(BundleBytes(1, ElementsBytes(kinds)))))
    /\ dispatched = NotDispatched

\* OscBundleInitialiseFromCharArray(&bundles[1], oscPacket.contents,
\* oscPacket.size)
CallOscBundleInitialiseFromPacket ==
    /\ bundleParses = 0
    /\ BundleParsed(1, packet.size,
                    OscBundleInitialiseFromCharArray(bundles[1], packet.contents,
                                                     packet.size))
    /\ bundleParses' = bundleParses + 1
    /\ UNCHANGED <<bundleHolds, bundleWire, bundleAdds, packet, packetHolds, dispatched>>

\* OscBundleGetBundleElement(&bundles[b], &oscBundleElement) has returned r.
BundleElementGot(b, r) ==
    /\ bundles' = [bundles EXCEPT ![b] = r.bundle]
    /\ bundleCall' = [NoBundleCall EXCEPT !.op = "OscBundleGetBundleElement",
                                          !.err = r.err, !.bundle = b,
                                          !.size = r.size, !.before = bundles[b]]

\* OscBundleGetBundleElement(&bundles[1], &oscBundleElement), after the bundle
\* is parsed
CallOscBundleGetBundleElement ==
    /\ bundleParses > 0
    /\ \/ bundleCall.err = OscErrorNone
       \/ bundleCall.op = "OscBundleGetBundleElement"
    /\ BundleElementGot(1, OscBundleGetBundleElement(bundles[1]))
    /\ UNCHANGED <<bundleHolds, bundleWire, bundleAdds, bundleParses, packet,
                   packetHolds, dispatched>>

ReceiveNext ==
    \/ AssignProcessMessage /\ UNCHANGED <<addrVars, slipVars, msgVars>>
    \/ CallOscPacketProcessMessages /\ UNCHANGED <<addrVars, slipVars, msgVars>>
    \/ CallOscBundleInitialiseFromPacket /\ UNCHANGED <<addrVars, slipVars, msgVars>>
    \/ CallOscBundleGetBundleElement /\ UNCHANGED <<addrVars, slipVars, msgVars>>

SpecReceive == ReceiveInit /\ [][ReceiveNext]_vars

-----------------------------------------------------------------------------
(* Claims about OSC messages *)

\* The address pattern, the type tag string and the arguments of a message.
MessageContents(oscMessage) ==
    [oscAddressPattern |->
         PeekAll(oscMessage.oscAddressPattern, 0, oscMessage.oscAddressPatternLength),
     oscTypeTagString |->
         PeekAll(oscMessage.oscTypeTagString, 0, oscMessage.oscTypeTagStringLength),
     arguments |-> PeekAll(oscMessage.arguments, 0, oscMessage.argumentsSize)]

\* OscMessageInitialiseFromCharArray has just been called on the bytes
\* OscMessageToCharArray wrote for a message made by OscMessageInitialise and
\* successful add calls.
ParsedWhatWasBuilt ==
    /\ msgCall.op = "OscMessageInitialiseFromCharArray"
    /\ msgParses > 0
    /\ msgWire.err = OscErrorNone
    /\ msgWire.sentBuilt

\* C1: parsing the bytes OscMessageToCharArray wrote for a message built by
\* OscMessageInitialise and successful add calls succeeds, and gives a message
\* with the same address pattern, type tag string (comma included) and
\* arguments.
C1_MessageRoundTrip ==
    ParsedWhatWasBuilt =>
        /\ msgCall.err = OscErrorNone
        /\ MessageContents(message) = MessageContents(msgWire.sent)

\* The names of the argument accessors.
AccessorNames == {call.fn : call \in AccessCalls} \ {"OscMessageSkipArgument"}

\* C5: when an argument accessor returns an error, oscTypeTagStringIndex and
\* argumentsIndex have the values they had before the call.
C5_FailedAccessorKeepsCursors ==
    (msgCall.op \in AccessorNames /\ msgCall.err # OscErrorNone)
        => Cursors(message) = msgCall.before

-----------------------------------------------------------------------------
(* Claims about bundles and packets *)

\* The messages held by a message or bundle, in depth-first pre-order, each
\* with the time tag of the bundle that holds it; oscTimeTag is the time tag
\* of the bundle that holds held, NullTimeTag when no bundle does.
RECURSIVE PreOrder(_, _)
RECURSIVE PreOrderAll(_, _)
PreOrder(held, oscTimeTag) ==
    IF held.kind = "message"
    THEN <<[oscTimeTag |-> oscTimeTag, oscMessage |-> MessageContents(held.oscMessage)]>>
    ELSE PreOrderAll(held.elements, held.oscTimeTag)

PreOrderAll(elements, oscTimeTag) ==
    IF elements = <<>> THEN <<>>
    ELSE PreOrder(Head(elements), oscTimeTag) \o PreOrderAll(Tail(elements), oscTimeTag)

\* The calls of processMessage: the time tag and the contents of the message
\* of each.
Handled(calls) ==
    [k \in 1..Len(calls) |->
        [oscTimeTag |-> calls[k].oscTimeTag,
         oscMessage |-> MessageContents(calls[k].oscMessage)]]

\* OscPacketProcessMessages was called on a packet with its processMessage
\* assigned.
Processed ==
    /\ dispatched.op = "OscPacketProcessMessages"
    /\ packet.processMessage # NULL

\* C3: OscPacketProcessMessages, on a packet made of a message or of a tree of
\* bundles and messages, returns no error and has called processMessage once
\* for each message, in depth-first pre-order, with the time tag of the
\* bundle that holds the message, or with NULL for a message that is the
\* packet's contents.
C3_DispatchInPreOrder ==
    Processed =>
        /\ dispatched.err = OscErrorNone
        /\ Handled(dispatched.calls) = PreOrder(packetHolds, NullTimeTag)

\* A packet was processed whose bundle holds a bundle, with messages handled
\* under two different time tags.
C3_Witness ==
    /\ Processed
    /\ \E k \in 1..Len(packetHolds.elements) : packetHolds.elements[k].kind = "bundle"
    /\ \E j, k \in 1..Len(dispatched.calls) :
          /\ j < k
          /\ dispatched.calls[j].oscTimeTag # dispatched.calls[k].oscTimeTag

\* OscBundleInitialiseFromCharArray has just been called, for the first time,
\* on the bytes OscBundleToCharArray wrote.
ParsedBundleWritten ==
    /\ bundleCall.op = "OscBundleInitialiseFromCharArray"
    /\ bundleParses = 1

\* C4: parsing the bytes OscBundleToCharArray wrote for a bundle made by
\* OscBundleInitialise and OscBundleAddContents calls succeeds, gives a bundle
\* with the same time tag, the same oscBundleElementsSize and the same element
\* bytes, and reads no byte beyond the bytes written.
C4_BundleRoundTrip ==
    ParsedBundleWritten =>
        /\ bundleCall.err = OscErrorNone
        /\ bundles[bundleCall.bundle].oscTimeTag = bundleWire.sent.oscTimeTag
        /\ bundles[bundleCall.bundle].oscBundleElementsSize
               = bundleWire.sent.oscBundleElementsSize
        /\ PeekAll(bundles[bundleCall.bundle].oscBundleElements, 0,
                   bundles[bundleCall.bundle].oscBundleElementsSize)
               = PeekAll(bundleWire.sent.oscBundleElements, 0,
                         bundleWire.sent.oscBundleElementsSize)
        /\ bundleCall.sourceIndex <= bundleCall.size

\* C6: when OscMessageToCharArray or OscBundleToCharArray succeeds, the number
\* of bytes written is a multiple of 4.
C6_SerialisedSizeIsMultipleOfFour ==
    /\ msgWire.err = OscErrorNone => (msgWire.size % 4) = 0
    /\ bundleWire.err = OscErrorNone => (bundleWire.size % 4) = 0

-----------------------------------------------------------------------------
(* Claims about the SLIP codec *)

\* The length of the SLIP frame of a packet: its contents with every SLIP_END
\* and SLIP_ESC escaped as two bytes, and the closing SLIP_END.
SlipFrameLength(contents) ==
    Len(contents) + CountChar(contents, SLIP_END) + CountChar(contents, SLIP_ESC) + 1

\* The decoder got the encoded packet in full (all) or in part, after the
\* application had assigned its processPacket.
SlipRoundTrip ==
    /\ EncodedWithinDestination
    /\ slipDecoder.processPacket # NULL
    /\ IF slipFed < slipEncoded.slipPacketSize
       THEN slipDelivered = <<>>
       ELSE slipDelivered = <<slipPacket>>
    /\ slipErrors \subseteq {OscErrorNone}

\* C2 as stated. SLIP round-trip: for every packet of at most
\* MAX_TRANSPORT_SIZE bytes, giving the bytes OscSlipEncodePacket produced one
\* at a time to an initialised decoder with a packet handler calls the handler
\* exactly once, on the closing SLIP_END, with the original packet, and every
\* OscSlipDecoderProcessByte returns no error.
C2_Original_SlipRoundTrip ==
    (/\ EncodedWithinDestination
     /\ slipDecoder.processPacket # NULL
     /\ Len(slipPacket) <= MAX_TRANSPORT_SIZE) => SlipRoundTrip

\* C2 as amended: the same for every packet whose SLIP frame (the escaped
\* contents and the closing SLIP_END) is shorter than MAX_TRANSPORT_SIZE bytes,
\* the size of the decoder's buffer.
C2_SlipRoundTrip ==
    (/\ EncodedWithinDestination
     /\ slipDecoder.processPacket # NULL
     /\ SlipFrameLength(slipPacket) < MAX_TRANSPORT_SIZE) => SlipRoundTrip

\* The longest frame the decoder takes, holding escaped bytes, has been decoded
\* and passed to the handler.
C2_Witness ==
    /\ EncodedWithinDestination
    /\ SlipFrameLength(slipPacket) = MAX_TRANSPORT_SIZE - 1
    /\ CountChar(slipPacket, SLIP_END) > 0
    /\ slipFed = slipEncoded.slipPacketSize
    /\ slipDelivered = <<slipPacket>>

\* C7. OscSlipEncodePacket never writes to the destination at an index greater
\* than or equal to destinationSize, and when the SLIP frame is longer than
\* destinationSize it returns DestinationTooSmall with a SLIP packet size of 0.
C7_EncodeStaysInDestination ==
    slipEncoded # NotEncoded
        => /\ Len(slipEncoded.destination) <= slipEncoded.destinationSize
           /\ SlipFrameLength(slipPacket) > slipEncoded.destinationSize
                 => /\ slipEncoded.err = OscErrorDestinationTooSmall
                    /\ slipEncoded.slipPacketSize = 0

-----------------------------------------------------------------------------
(* Claims about the address matcher *)

\* OscAddressMatch has returned, and without reading behind the address's
\* terminating null.
Matched ==
    /\ matchOp = "OscAddressMatch"
    /\ ~matchResult.hang
    /\ matchResult.top <= Len(address)

\* C8. Literal/pattern equivalence: for a pattern that holds none of '?', '*',
\* '[', '{' (OscAddressIsLiteral is true of it) and any address,
\* OscAddressMatch returns true exactly when the pattern and the address are
\* the same string.
C8_LiteralMatchIsEquality ==
    (matchOp = "OscAddressMatch" /\ OscAddressIsLiteral(pattern))
        => /\ ~matchResult.hang
           /\ matchResult.ok <=> (pattern = address)

C8_Witness ==
    /\ matchOp = "OscAddressMatch"
    /\ OscAddressIsLiteral(pattern)
    /\ pattern = address
    /\ Len(pattern) = MaxAddressLen
    /\ matchResult.ok

\* The pattern's only special character is '*'.
OnlyStars(p) ==
    \A i \in 1..Len(p) :
        p[i] \notin {CharQuestion, CharOpenBracket, CharCloseBracket,
                     CharOpenBrace, CharCloseBrace}

\* C9. A '*' never matches across a '/': when a pattern whose only special
\* character is '*' matches an address, the two hold the same number of '/'.
C9_StarStaysInPart ==
    (Matched /\ OnlyStars(pattern) /\ matchResult.ok)
        => CountChar(pattern, CharSlash) = CountChar(address, CharSlash)

\* The positions of the first '{' and of the first '}' of p (0 when none).
FirstIndex(p, c) ==
    IF \E i \in 1..Len(p) : p[i] = c
    THEN CHOOSE i \in 1..Len(p) : p[i] = c /\ \A j \in 1..(i - 1) : p[j] # c
    ELSE 0

\* p is made of literal characters and one curly braced list without '/'.
IsOneBraceGroup(p) ==
    LET o == FirstIndex(p, CharOpenBrace)
        c == FirstIndex(p, CharCloseBrace)
    IN  /\ o > 0 /\ c > o
        /\ \A i \in 1..Len(p) :
              /\ p[i] \notin {CharQuestion, CharStar, CharOpenBracket, CharCloseBracket}
              /\ p[i] = CharOpenBrace => i = o
              /\ p[i] = CharCloseBrace => i = c
              /\ p[i] = CharComma => (o < i /\ i < c)
              /\ p[i] = CharSlash => (i < o \/ i > c)

\* a is p with its curly braced list replaced by one of the listed substrings:
\* the substring from position from to position to - 1, which a ',' or the
\* braces delimit.
IsExpansion(p, a) ==
    LET o == FirstIndex(p, CharOpenBrace)
        c == FirstIndex(p, CharCloseBrace)
    IN  \E from \in (o + 1)..c : \E to \in from..c :
            /\ p[from - 1] \in {CharOpenBrace, CharComma}
            /\ p[to] \in {CharComma, CharCloseBrace}
            /\ \A i \in from..(to - 1) : p[i] # CharComma
            /\ a = SubSeq(p, 1, o - 1) \o SubSeq(p, from, to - 1) \o SubSeq(p, c + 1, Len(p))

\* C10. Brace alternation: a pattern made of literal characters and one curly
\* braced list matches every address that is the pattern with the list replaced
\* by one of its substrings, also when a longer substring of the list matches a
\* prefix of what is left of the address.
C10_BraceMatchesEveryAlternative ==
    (matchOp = "OscAddressMatch" /\ IsOneBraceGroup(pattern) /\ IsExpansion(pattern, address))
        => (~matchResult.hang /\ matchResult.ok)

\* The matcher function returned true.
ReturnedTrue(r) == ~r.hang /\ r.ok

\* C11: when OscAddressMatch returns true of a pattern and an address,
\* OscAddressMatchPartial returns true of them.
C11_MatchImpliesPartial ==
    (matchOp = "OscAddressMatch" /\ ReturnedTrue(matchResult))
        => ReturnedTrue(OscAddressMatchPartial(pattern, AddressMemory(address, tail)))

\* OscAddressMatch returned true of a pattern with a curly braced list and an
\* address of the greatest length.
C11_Witness ==
    /\ matchOp = "OscAddressMatch"
    /\ ReturnedTrue(matchResult)
    /\ CountChar(pattern, CharOpenBrace) > 0
    /\ Len(address) = MaxAddressLen
    /\ ReturnedTrue(OscAddressMatchPartial(pattern, AddressMemory(address, tail)))

\* OscAddressMatchPartial was called with the empty address.
PartialOfEmptyAddress ==
    /\ matchOp = "OscAddressMatchPartial"
    /\ address = <<>>

\* C12 as stated: OscAddressMatchPartial returns true of a pattern and the
\* empty address exactly when the pattern starts with '/'.
C12_Original_PartialOfEmptyIffSlash ==
    PartialOfEmptyAddress
        => (ReturnedTrue(matchResult) <=> (pattern # <<>> /\ Head(pattern) = CharSlash))

\* C12: OscAddressMatchPartial returns true of every pattern and the empty
\* address, whether the pattern starts with '/' or not.
C12_PartialOfEmptyIsTrue ==
    PartialOfEmptyAddress => ReturnedTrue(matchResult)

\* OscAddressMatchPartial returned true of the empty address and a pattern
\* that does not start with '/'.
C12_Witness ==
    /\ PartialOfEmptyAddress
    /\ pattern # <<>>
    /\ Head(pattern) # CharSlash
    /\ ReturnedTrue(matchResult)

\* The character at position i of p, an opening bracket or brace, has the
\* closing character c after it with no '/' in between.
Closed(p, i, c) ==
    \E j \in (i + 1)..Len(p) :
        /\ p[j] = c
        /\ \A k \in (i + 1)..(j - 1) : p[k] # CharSlash

\* The character at position j of p, a closing bracket or brace, has the
\* opening character o before it with no '/' in between.
Opened(p, j, o) ==
    \E i \in 1..(j - 1) :
        /\ p[i] = o
        /\ \A k \in (i + 1)..(j - 1) : p[k] # CharSlash

\* p holds a '[' or '{' that is not closed before the next '/' or the end of
\* p, or a ']' or '}' that nothing opens.
Unbalanced(p) ==
    \E i \in 1..Len(p) :
        \/ p[i] = CharOpenBracket /\ ~Closed(p, i, CharCloseBracket)
        \/ p[i] = CharOpenBrace /\ ~Closed(p, i, CharCloseBrace)
        \/ p[i] = CharCloseBracket /\ ~Opened(p, i, CharOpenBracket)
        \/ p[i] = CharCloseBrace /\ ~Opened(p, i, CharOpenBrace)

\* C13: OscAddressMatch returns false of every address and a pattern with
\* unbalanced brackets or braces.
C13_UnbalancedNeverMatches ==
    (matchOp = "OscAddressMatch" /\ Unbalanced(pattern))
        => (~matchResult.hang /\ ~matchResult.ok)

-----------------------------------------------------------------------------
(* Claims about the parts of an address *)

\* The position of the n-th '/' of s, n counted from 1.
NthSlash(s, n) ==
    CHOOSE k \in 1..Len(s) :
        /\ s[k] = CharSlash
        /\ Cardinality({j \in 1..(k - 1) : s[j] = CharSlash}) = n - 1

\* The i-th part of s, i counted from 0: the characters between the '/' that
\* starts the part and the next '/' or the end of s.
PartOf(s, i) ==
    SubSeq(s, NthSlash(s, i + 1) + 1,
           IF i + 2 <= CountChar(s, CharSlash) THEN NthSlash(s, i + 2) - 1 ELSE Len(s))

\* C14: OscAddressGetPartAtIndex with an index less than
\* OscAddressGetNumberOfParts and a destination large enough returns no error
\* and writes the part at that index, without its '/', as a null terminated
\* string; with an index that is not less than the number of parts it returns
\* OscErrorNotEnoughPartsInAddressPattern.
C14_PartAtIndex ==
    (partCall.op = "OscAddressGetPartAtIndex") =>
        IF partCall.index < OscAddressGetNumberOfParts(pattern)
        THEN (partCall.destinationSize > Len(PartOf(pattern, partCall.index)))
                 => /\ partCall.err = OscErrorNone
                    /\ partCall.destination
                           = PartOf(pattern, partCall.index) \o <<CharNull>>
        ELSE partCall.err = OscErrorNotEnoughPartsInAddressPattern

-----------------------------------------------------------------------------
(* Claims about the limits of a message *)

\* The bytes the argument of an add call takes in the arguments array.
ArgumentSize(call) ==
    CASE call.fn \in {"OscMessageAddInt64", "OscMessageAddTimeTag", "OscMessageAddDouble"} ->
             SizeOfOscArgument64
      [] call.fn \in {"OscMessageAddBool", "OscMessageAddNil", "OscMessageAddInfinitum",
                      "OscMessageAddBeginArray", "OscMessageAddEndArray"} -> 0
      [] call.fn \in {"OscMessageAddString", "OscMessageAddAlternateString"} ->
             MultipleOfFour(Len(call.arg) + 1)
      [] call.fn = "OscMessageAddBlob" ->
             SizeOfOscArgument32 + MultipleOfFour(Len(call.arg))
      [] OTHER -> SizeOfOscArgument32

\* The number of type tags of the message, the comma not counted.
NumberOfTypeTags(oscMessage) == oscMessage.oscTypeTagStringLength - 1

\* The message is within its two bounds.
WithinBounds(oscMessage) ==
    /\ NumberOfTypeTags(oscMessage) <= MAX_NUMBER_OF_ARGUMENTS
    /\ oscMessage.argumentsSize <= MAX_ARGUMENTS_SIZE

\* The add call would take the message over one of its two bounds.
WouldExceed(oscMessage, call) ==
    \/ NumberOfTypeTags(oscMessage) + 1 > MAX_NUMBER_OF_ARGUMENTS
    \/ oscMessage.argumentsSize + ArgumentSize(call) > MAX_ARGUMENTS_SIZE

\* The step is an add call that would exceed a bound: it returns one of the
\* two errors and leaves the type tag string, its length and the size of the
\* arguments as they were.
RefusedWhereExceeding ==
    WouldExceed(message, [fn |-> msgCall'.op, arg |-> msgCall'.value])
        => /\ msgCall'.err \in {OscErrorTooManyArguments, OscErrorArgumentsSizeTooLarge}
           /\ message'.oscTypeTagString = message.oscTypeTagString
           /\ message'.oscTypeTagStringLength = message.oscTypeTagStringLength
           /\ message'.argumentsSize = message.argumentsSize

\* C15: after any add calls on an initialised message the number of type tags
\* is at most MAX_NUMBER_OF_ARGUMENTS and the size of the arguments at most
\* MAX_ARGUMENTS_SIZE, and an add call that would exceed either bound returns
\* OscErrorTooManyArguments or OscErrorArgumentsSizeTooLarge and leaves the
\* type tag string, its length and the size of the arguments unchanged.
C15_AddsStayWithinBounds ==
    /\ [](WithinBounds(message))
    /\ [][RefusedWhereExceeding]_vars

\* OscMessageAddString was refused on a message whose arguments array could
\* not hold the string, after adds that were not refused.
C15_Witness ==
    /\ msgCall.op = "OscMessageAddString"
    /\ msgAdds = MaxAdds
    /\ msgCall.err = OscErrorArgumentsSizeTooLarge
    /\ NumberOfTypeTags(message) = MAX_NUMBER_OF_ARGUMENTS - 1
    /\ message.argumentsSize + SizeOfOscArgument32 > MAX_ARGUMENTS_SIZE

-----------------------------------------------------------------------------
(* Claims about the capacity of a bundle *)

\* n less d, or 0 if that is negative.
Decreased(n, d) == IF n - d < 0 THEN 0 ELSE n - d

\* OscBundleAddContents has returned.
AddContentsReturned == bundleCall.op = "OscBundleAddContents"

\* C16: after a successful OscBundleAddContents(bundle, x),
\* OscBundleGetRemainingCapacity(bundle) is less than before the call by the
\* size of x (OscMessageGetSize or OscBundleGetSize) and 4, or is 0 where that
\* difference is negative.
C16_CapacityMonotonicity ==
    (AddContentsReturned /\ bundleCall.err = OscErrorNone)
        => OscBundleGetRemainingCapacity(bundles[bundleCall.bundle])
               = Decreased(OscBundleGetRemainingCapacity(bundleCall.before),
                           bundleCall.size + SizeOfOscArgument32)

\* A message was added to a bundle that had room for it but not for the four
\* bytes of its size too: the capacity is 0 and the bundle is full to its last
\* byte.
C16_Witness ==
    /\ bundleAdds > 0
    /\ bundleCall.op = "OscBundleAddContents"
    /\ bundleCall.err = OscErrorNone
    /\ bundles[bundleCall.bundle].oscBundleElementsSize = MAX_OSC_BUNDLE_ELEMENTS_SIZE
    /\ OscBundleGetRemainingCapacity(bundles[bundleCall.bundle]) = 0

\* The bundle as the application sees it: the size of its elements, its
\* remaining capacity, its time tag and the bytes OscBundleToCharArray writes
\* for it.
BundleSeen(oscBundle) ==
    [oscBundleElementsSize |-> oscBundle.oscBundleElementsSize,
     remainingCapacity |-> OscBundleGetRemainingCapacity(oscBundle),
     oscTimeTag |-> oscBundle.oscTimeTag,
     serialised |-> OscBundleToCharArray(oscBundle, MAX_OSC_BUNDLE_SIZE)]

\* C17: where OscBundleAddContents returns an error the contents are
\* discarded: the size of the bundle's elements, its remaining capacity, its
\* time tag and its serialised bytes are what they were before the call.
C17_FailedAddLeavesBundle ==
    (AddContentsReturned /\ bundleCall.err # OscErrorNone)
        => BundleSeen(bundles[bundleCall.bundle]) = BundleSeen(bundleCall.before)

\* OscBundleAddContents returned an error after it had written a part of the
\* contents behind the elements of the bundle.
C17_Witness ==
    /\ AddContentsReturned
    /\ bundleAdds > 0
    /\ bundleCall.err # OscErrorNone
    /\ bundles[bundleCall.bundle].oscBundleElements # bundleCall.before.oscBundleElements
    /\ BundleSeen(bundles[bundleCall.bundle]) = BundleSeen(bundleCall.before)

\* Structures whose first byte is neither '/' nor '#': one no function has
\* written to, and a message initialised without an address pattern.
InvalidContents == {NewOscMessage, InitialisedMessage(NewOscMessage)}

\* C18: the only results of OscBundleAddContents are success,
\* OscErrorBundleFull and OscErrorInvalidContents: a message or bundle whose
\* serialised size exceeds the remaining capacity gives OscErrorBundleFull, and
\* contents whose first byte is neither '/' nor '#' give
\* OscErrorInvalidContents (stated here of the bundles that have room for the
\* four bytes of an element's size).
C18_AddContentsResults ==
    /\ AddContentsReturned
           => /\ bundleCall.err \in {OscErrorNone, OscErrorBundleFull,
                                     OscErrorInvalidContents}
              /\ bundleCall.size > OscBundleGetRemainingCapacity(bundleCall.before)
                     => bundleCall.err = OscErrorBundleFull
    /\ \A b \in Bundles, oscContents \in InvalidContents :
           (bundles[b].oscBundleElementsSize + SizeOfOscArgument32)
                   <= MAX_OSC_BUNDLE_ELEMENTS_SIZE
               => OscBundleAddContents(bundles[b], oscContents).err
                      = OscErrorInvalidContents

-----------------------------------------------------------------------------
(* Claims about the accessors of a message *)

\* The accessors that convert the argument to a number, a character or a
\* bool.
NumberAccessors ==
    {"OscMessageGetArgumentAsInt32", "OscMessageGetArgumentAsFloat32",
     "OscMessageGetArgumentAsInt64", "OscMessageGetArgumentAsTimeTag",
     "OscMessageGetArgumentAsDouble", "OscMessageGetArgumentAsCharacter",
     "OscMessageGetArgumentAsBool"}

\* The type tag the last call found at the type tag cursor.
TypeTagBefore == Peek(message.oscTypeTagString, msgCall.before.oscTypeTagStringIndex)

\* C19: a successful call of OscMessageGetArgumentAsInt32, ...AsFloat32,
\* ...AsInt64, ...AsTimeTag, ...AsDouble, ...AsCharacter or ...AsBool on a T,
\* F, N or I argument advances the type tag cursor by one and leaves the
\* cursor of the arguments where it was.
C19_TagOnlyArgumentAdvances ==
    (/\ msgCall.op \in NumberAccessors
     /\ msgCall.err = OscErrorNone
     /\ TypeTagBefore \in {OscTypeTagTrue, OscTypeTagFalse, OscTypeTagNil,
                           OscTypeTagInfinitum})
        => /\ message.oscTypeTagStringIndex = msgCall.before.oscTypeTagStringIndex + 1
           /\ message.argumentsIndex = msgCall.before.argumentsIndex

\* The argument the last call found at the cursors is a blob of n bytes that
\* lies within the arguments of the message.
BlobBefore(n) ==
    /\ msgCall.before.oscTypeTagStringIndex < message.oscTypeTagStringLength
    /\ TypeTagBefore = OscTypeTagBlob
    /\ msgCall.before.argumentsIndex + SizeOfOscArgument32 + n <= message.argumentsSize
    /\ PeekAll(message.arguments, msgCall.before.argumentsIndex, SizeOfOscArgument32)
           = Int32Bytes(n)

\* C20: where the next argument is a blob of exactly 4 bytes,
\* OscMessageGetArgumentAsRgbaColour and OscMessageGetArgumentAsMidiMessage
\* return no error and the RgbaColour or MidiMessage of the caller holds the
\* four bytes of the blob.
C20_FourByteBlobIsReinterpreted ==
    (/\ msgCall.op \in {"OscMessageGetArgumentAsRgbaColour",
                        "OscMessageGetArgumentAsMidiMessage"}
     /\ BlobBefore(SizeOfOscArgument32))
        => /\ msgCall.err = OscErrorNone
           /\ msgCall.value
                  = PeekAll(message.arguments,
                            msgCall.before.argumentsIndex + SizeOfOscArgument32,
                            SizeOfOscArgument32)

-----------------------------------------------------------------------------
(* Claims about received bundles *)

\* The kinds of element that are a message or a bundle of messages.
GoodKinds == {"message", "int", "bundle"}

\* OscPacketProcessMessages has returned on a received bundle, with
\* processMessage assigned.
ReceivedProcessed ==
    /\ packetHolds.kind = "received"
    /\ dispatched.op = "OscPacketProcessMessages"
    /\ packet.processMessage # NULL

\* The first element of the received bundle that is not a message or a bundle
\* of messages is element i.
FirstBadElement(i) ==
    /\ i \in 1..Len(packetHolds.elements)
    /\ packetHolds.elements[i] \notin GoodKinds
    /\ \A j \in 1..(i - 1) : packetHolds.elements[j] \in GoodKinds

\* C21: OscPacketProcessMessages on a packet that holds a bundle with an
\* element whose size is negative, behind any number of messages and bundles
\* of messages, returns OscErrorNegativeBundleElementSize, wherever the size
\* lies in the elements of the bundle.
C21_NegativeSizeIsReported ==
    (/\ ReceivedProcessed
     /\ \E i \in 1..Len(packetHolds.elements) :
           FirstBadElement(i) /\ packetHolds.elements[i] = "negative")
        => dispatched.err = OscErrorNegativeBundleElementSize

\* The call of processMessage for a message of the given bytes in bundle b.
CallOf(b, bytes) ==
    [oscTimeTag |-> TimeTagOf(b),
     oscMessage |-> OscMessageInitialiseFromCharArray(NewOscMessage, bytes,
                                                      Len(bytes)).msg]

\* The calls of processMessage for the messages of an element, in pre-order,
\* up to the place where the element fails if it does.
CallsOfKind(kind) ==
    CASE kind = "message" -> <<CallOf(1, MessageBytes)>>
      [] kind = "int" -> <<CallOf(1, IntMessageBytes)>>
      [] kind \in {"bundle", "badbundle"} -> <<CallOf(2, IntMessageBytes)>>
      [] OTHER -> <<>>

RECURSIVE CallsOfKinds(_)
CallsOfKinds(kinds) ==
    IF kinds = <<>> THEN <<>>
    ELSE CallsOfKind(Head(kinds)) \o CallsOfKinds(Tail(kinds))

\* The error of an element that fails to parse.
ErrorOfKind(kind) ==
    CASE kind \in {"negative", "badbundle"} -> OscErrorNegativeBundleElementSize
      [] kind = "odd" -> OscErrorSizeIsNotMultipleOfFour
      [] kind = "long" -> OscErrorInvalidElementSize
      [] kind = "empty" -> OscErrorContentsEmpty
      [] kind = "invalid" -> OscErrorInvalidContents
      [] kind = "short" -> OscErrorMessageSizeTooSmall
      [] OTHER -> OscErrorNone

\* OscPacketProcessMessages stopped at element i of the received bundle: it
\* returned the error of that element after the calls of processMessage for
\* the messages in front of the place where the element fails, and no other
\* call.
StoppedAt(i) ==
    /\ FirstBadElement(i)
    /\ dispatched.err = ErrorOfKind(packetHolds.elements[i])
    /\ dispatched.calls = CallsOfKinds(SubSeq(packetHolds.elements, 1, i))

\* C22: where an element of the bundle fails to parse during
\* OscPacketProcessMessages the iteration stops there: the call returns the
\* error of that element, processMessage has been called for the messages
\* that precede the failing element in pre-order and for no message behind
\* it.
C22_IterationStopsAtFailure ==
    (ReceivedProcessed /\ dispatched.err # OscErrorNone)
        => \E i \in 1..Len(packetHolds.elements) : StoppedAt(i)

\* OscPacketProcessMessages stopped at the second of three elements, with a
\* message in front of it and a message behind it.
C22_Witness ==
    /\ ReceivedProcessed
    /\ dispatched.err # OscErrorNone
    /\ Len(packetHolds.elements) = MaxElements
    /\ packetHolds.elements[MaxElements] \in GoodKinds
    /\ StoppedAt(MaxElements - 1)
    /\ Len(dispatched.calls) = MaxElements - 2

\* C26: OscBundleGetBundleElement advances oscBundleElementsIndex to the next
\* element only where it succeeds; where it returns an error
\* (OscErrorBundleElementNotAvailable, OscErrorNegativeBundleElementSize,
\* OscErrorSizeIsNotMultipleOfFour or OscErrorInvalidElementSize) the index is
\* what it was before the call.
C26_FailedGetKeepsIndex ==
    (bundleCall.op = "OscBundleGetBundleElement" /\ bundleCall.err # OscErrorNone)
        => bundles[bundleCall.bundle].oscBundleElementsIndex
               = bundleCall.before.oscBundleElementsIndex

-----------------------------------------------------------------------------
(* Claims about the termination and the reads of the matcher *)

\* OscAddressMatch or OscAddressMatchPartial has been called.
MatcherCalled == matchOp \in {"OscAddressMatch", "OscAddressMatchPartial"}

\* C23: OscAddressMatch and OscAddressMatchPartial return, true or false, for
\* every pattern and every address, also where a '*' is followed by a curly
\* braced list with an empty alternative.
C23_MatchersTerminate == MatcherCalled => ~matchResult.hang

\* C28: during OscAddressMatch and OscAddressMatchPartial the address cursor
\* never passes the terminating null of the address: no character behind the
\* end of the address string is read.
C28_AddressCursorStaysInString == MatcherCalled => matchResult.top <= Len(address)

-----------------------------------------------------------------------------
(* Claims about the SLIP decoder on a stream of bytes *)

\* The last call was OscSlipDecoderProcessByte.
ByteProcessed == slipCall.op = "OscSlipDecoderProcessByte"

SlipUnescaped(frame) ==
    LET body == SubSeq(frame, 1, Len(frame) - 1)
        kept == SelectSeq([i \in 1..Len(body) |-> i], LAMBDA i : body[i] # SLIP_ESC)
    IN  [k \in 1..Len(kept) |->
            IF kept[k] > 1 /\ body[kept[k] - 1] = SLIP_ESC
            THEN (IF body[kept[k]] = SLIP_ESC_END THEN SLIP_END ELSE SLIP_ESC)
            ELSE body[kept[k]]]

\* C30: every packet passed to processPacket is the unescaped content of a
\* complete frame, that is of all the bytes given to the decoder since the
\* previous SLIP_END, the initialisation or OscSlipDecoderClearBuffer; the
\* tail of a frame that was too long is never passed as a packet.
C30_OnlyCompleteFramesDelivered ==
    (ByteProcessed /\ slipCall.called) => slipCall.contents = SlipUnescaped(slipCall.frame)

-----------------------------------------------------------------------------
(* Claims about the string accessor and about received messages *)

\* The last call was OscMessageGetString.
GetStringCalled == msgCall.op = "OscMessageGetString"

\* The call found a string argument of at least four bytes to copy.
StringToCopy ==
    /\ Peek(message.oscTypeTagString, msgCall.before.oscTypeTagStringIndex)
           \in {OscTypeTagString, OscTypeTagAlternateString}
    /\ msgCall.before.argumentsIndex + 4 <= message.argumentsSize

\* C29: OscMessageGetString never writes to the destination at an index
\* greater than or equal to destinationSize and never reads the arguments at
\* or beyond argumentsSize (its reads are of the bytes it writes, from
\* argumentsIndex on); when the string with its terminating null does not fit
\* in destinationSize it returns OscErrorDestinationTooSmall.
C29_GetStringStaysInBounds ==
    GetStringCalled
        => /\ Len(msgCall.value) <= msgCall.size
           /\ msgCall.before.argumentsIndex + Len(msgCall.value) <= message.argumentsSize
           /\ (/\ StringToCopy
               /\ StrLen(message.arguments, msgCall.before.argumentsIndex) + 1 > msgCall.size)
                 => msgCall.err = OscErrorDestinationTooSmall

\* C27: after any sequence of OscMessageInitialise, OscMessageSetAddressPattern
\* and OscMessageAppendAddressPattern calls, successful or failed, the address
\* pattern of the message is consistent: oscAddressPattern holds a null at
\* index oscAddressPatternLength and none before it, so that the stored string
\* is the first oscAddressPatternLength characters, and an address pattern
\* that is not empty starts with '/'.
C27_AddressPatternIsConsistent ==
    /\ Peek(message.oscAddressPattern, message.oscAddressPatternLength) = CharNull
    /\ \A i \in 0..(message.oscAddressPatternLength - 1) :
          Peek(message.oscAddressPattern, i) # CharNull
    /\ message.oscAddressPatternLength > 0
          => Peek(message.oscAddressPattern, 0) = CharSlash

\* OscMessageInitialiseFromCharArray has returned OscErrorNone of a source
\* whose length is a multiple of four from MIN_OSC_MESSAGE_SIZE to
\* MAX_OSC_MESSAGE_SIZE.
ParsedReceived ==
    /\ msgCall.op = "OscMessageInitialiseFromCharArray"
    /\ msgCall.err = OscErrorNone
    /\ (msgCall.size % 4) = 0
    /\ msgCall.size \in MIN_OSC_MESSAGE_SIZE..MAX_OSC_MESSAGE_SIZE

\* C25: after OscMessageInitialiseFromCharArray succeeds on such a source,
\* argumentsSize is at most MAX_ARGUMENTS_SIZE and no byte has been written
\* behind the arguments buffer of the message.
C25_ParsedArgumentsFit ==
    ParsedReceived
        => /\ message.argumentsSize <= MAX_ARGUMENTS_SIZE
           /\ Len(message.arguments) <= MAX_ARGUMENTS_SIZE

=============================================================================
